---- MODULE Spec2Model ----
(***************************************************************************)
(* Model of the hwy-go router: route-table construction (walkPages), the   *)
(* matcher, the nested-route resolver (getMatchingPathsInternal), the      *)
(* resolution cache and the loader/action pipeline (getMatchingPathData).  *)
(*                                                                         *)
(* Strings.  A Go string that the code splits on "/" (a request path, a    *)
(* route pattern) is modelled by the sequence strings.Split(s, "/") gives: *)
(* "/tiger/123" is <<"", "tiger", "123">>, "/" is <<"", "">> and the empty *)
(* string is <<"">>.  One segment is a TLA+ string.  strings.HasPrefix,    *)
(* s[1:] and strings.Replace on a segment are tables over the finite       *)
(* universe of segments the model uses.                                    *)
(*                                                                         *)
(* Pointers.  A Go pointer that may be nil is a sequence of length 0 (nil) *)
(* or 1 (the value pointed to).                                            *)
(***************************************************************************)
EXTENDS Integers, Sequences, FiniteSets, TLC

VARIABLES
    instancePaths,  \* var instancePaths *[]Path: nil, or the route table Initialize set
    gmpdCache,      \* the resolution cache: normalized path -> gmpdItem
    pc,             \* position of the request being served
    req,            \* the request: [path, method]
    realPath,       \* the normalized path of the request
    cacheHit,       \* whether gmpdCache.Get found the path
    matchingPaths,  \* the chain getMatchingPathsInternal returned (on a miss)
    item,           \* the gmpdItem the request works with
    actionData,     \* result of getActionData: [data, err]
    loadersData,    \* result slots of the loader tasks
    errors,         \* error slots of the loader tasks
    pending,        \* loader tasks that have not finished
    reduced,        \* locals of the error reduction
    out,            \* the returned ActivePathData (nil while none)
    served,         \* number of requests started so far
    calls,          \* the Action, Loader and Head callbacks invoked, and what they returned
    headIndex,      \* getExportedHeadBlocks: the index of its loop
    headBlocks,     \* getExportedHeadBlocks: the head blocks collected so far
    deduped,        \* the result of dedupeHeadBlocks (nil while none)
    routeData,      \* what GetRouteData returned: [data, err]
    probe,          \* a single call of matcher: [pattern, path, out]
    workers,        \* concurrent requests at the route table and the cache, a record each
    initializers,   \* the calls of Hwy.Initialize so far, and those still running
    rangeLoop       \* the loop of getInitialMatchingPaths over *instancePaths

vars == <<instancePaths, gmpdCache, pc, req, realPath, cacheHit, matchingPaths, item,
          actionData, loadersData, errors, pending, reduced, out, served,
          calls, headIndex, headBlocks, deduped, routeData, probe, workers,
          initializers, rangeLoop>>

\* the variables of head assembly, and those of the other parts of a request
headVars == <<headIndex, headBlocks, deduped, routeData>>

\* ------------------------------------------------------------------ bounds

\* longest request path, in segments after the leading slash
MaxPathSegs == 4

\* requests served in one behaviour of the pipeline specification
MaxRequests == 2

\* calls of Hwy.Initialize that set a route table, in one behaviour
MaxInitializations == 2

\* ----------------------------------------------------------------- strings

SplatSegment == ":catch*"

PathTypeUltimateCatch == "ultimate-catch"
PathTypeIndex == "index"
PathTypeStaticLayout == "static-layout"
PathTypeDynamicLayout == "dynamic-layout"
PathTypeNonUltimateSplat == "non-ultimate-splat"

\* strings.Replace(segmentStr, "$", ":", -1) on the file-name segments in use
DollarToColon(s) ==
    CASE s = "$"             -> ":"
      [] s = "$tiger_id"     -> ":tiger_id"
      [] s = "$tiger_cub_id" -> ":tiger_cub_id"
      [] s = "$id"           -> ":id"
      [] OTHER               -> s

\* the segments that start with a colon
ColonSegments == {":", ":catch*", ":tiger_id", ":tiger_cub_id", ":id"}

\* strings.HasPrefix(s, ":")
HasColonPrefix(s) == s \in ColonSegments

\* s[1:] for a segment that starts with a colon
DropFirstChar(s) ==
    CASE s = ":"              -> ""
      [] s = ":catch*"        -> "catch*"
      [] s = ":tiger_id"      -> "tiger_id"
      [] s = ":tiger_cub_id"  -> "tiger_cub_id"
      [] s = ":id"            -> "id"

\* the segments with len(segment) > 0, in order
NonEmpty(segs) == SelectSeq(segs, LAMBDA s : s # "")

\* strings.TrimPrefix(s, "/") on a split string
TrimSlashPrefix(s) == IF Len(s) >= 2 /\ s[1] = "" THEN Tail(s) ELSE s

Last(s) == s[Len(s)]

\* body(v) with v evaluated once (a local variable holding a computed value)
With(v, body(_)) == CHOOSE r \in {body(x) : x \in {v}} : TRUE

\* pointers
Nil == <<>>
Ptr(v) == <<v>>
Deref(p) == p[1]

EmptyMap == [k \in {} |-> ""]

\* m[key] = value on a Go map
MapSet(m, key, value) ==
    [k \in (DOMAIN m) \cup {key} |-> IF k = key THEN value ELSE m[k]]

\* ------------------------------------------------------------- walkPages

\* One page file, given as the segments of its path below the pages directory
\* without the ".ui.<ext>" suffix, becomes one JSONSafePath.
walkPages(page) ==
    LET segmentStrs == [i \in 1..Len(page) |->
                          LET newSegment == DollarToColon(page[i])
                          IN  CASE newSegment = ":"      -> SplatSegment
                                [] newSegment = "_index" -> ""
                                [] OTHER                 -> newSegment]
        isIndex == \E i \in 1..Len(page) : DollarToColon(page[i]) = "_index"
        lastSeg == DollarToColon(Last(page))
        lastIsSplat == lastSeg = ":"
        lastIsDynamic == ~lastIsSplat /\ lastSeg # "_index" /\ HasColonPrefix(lastSeg)
        truthySegments == NonEmpty(segmentStrs)
        patternToUse == IF truthySegments = <<>> THEN <<"", "">>
                        ELSE <<"">> \o truthySegments
    IN  [Pattern  |-> patternToUse,
         Segments |-> segmentStrs,
         PathType |-> CASE isIndex       -> PathTypeIndex
                        [] lastIsSplat   -> PathTypeNonUltimateSplat
                        [] lastIsDynamic -> PathTypeDynamicLayout
                        [] OTHER         -> PathTypeStaticLayout,
         SrcPath  |-> page]

\* --------------------------------------------------------------- matcher

\* getMatchStrength: the score loop from pattern segment i on.
RECURSIVE scoreFrom(_, _, _)
scoreFrom(patternSegments, realSegments, i) ==
    IF i > Len(patternSegments) THEN 0
    ELSE IF Len(realSegments) >= Len(patternSegments)
            /\ patternSegments[i] = realSegments[i]
         THEN 3 + scoreFrom(patternSegments, realSegments, i + 1)
    ELSE IF patternSegments[i] = SplatSegment
         THEN 1 + scoreFrom(patternSegments, realSegments, i + 1)
    ELSE IF HasColonPrefix(patternSegments[i])
         THEN 2 + scoreFrom(patternSegments, realSegments, i + 1)
    ELSE 0

getMatchStrength(pattern, path) ==
    LET patternSegments == NonEmpty(pattern)
        realSegments == NonEmpty(path)
    IN  [Score |-> scoreFrom(patternSegments, realSegments, 1),
         RealSegmentsLength |-> Len(realSegments)]

\* matcher: the segment loop from pattern segment i on, with the params bound
\* so far; a mismatch ends the loop with matches = false.
RECURSIVE matchFrom(_, _, _, _)
matchFrom(patternSegments, pathSegments, i, params) ==
    IF i > Len(patternSegments) THEN [matches |-> TRUE, params |-> params]
    ELSE IF i <= Len(pathSegments) /\ patternSegments[i] = pathSegments[i]
         THEN matchFrom(patternSegments, pathSegments, i + 1, params)
    ELSE IF patternSegments[i] = SplatSegment
         THEN matchFrom(patternSegments, pathSegments, i + 1, params)
    ELSE IF HasColonPrefix(patternSegments[i])
         THEN LET paramKey == DropFirstChar(patternSegments[i])
              IN  matchFrom(patternSegments, pathSegments, i + 1,
                            IF paramKey # "catch*"
                            THEN MapSet(params, paramKey, pathSegments[i])
                            ELSE params)
    ELSE [matches |-> FALSE, params |-> params]

\* the zero matcherOutput{}
NoMatch == [matches |-> FALSE, params |-> Nil, score |-> 0, realSegmentsLength |-> 0]

matcher(patternArg, pathArg) ==
    LET pattern == TrimSlashPrefix(patternArg)
        path == TrimSlashPrefix(pathArg)
        isCatch == Last(pattern) = SplatSegment
        adjPatternSegmentsLength == IF isCatch THEN Len(pattern) - 1 ELSE Len(pattern)
        loop == IF pattern = path THEN [matches |-> TRUE, params |-> EmptyMap]
                ELSE matchFrom(pattern, path, 1, EmptyMap)
        strength == getMatchStrength(pattern, path)
    IN  IF adjPatternSegmentsLength > Len(path) THEN NoMatch
        ELSE IF ~loop.matches THEN NoMatch
        ELSE [matches |-> TRUE,
              params |-> Ptr(loop.params),
              score |-> strength.Score,
              realSegmentsLength |-> strength.RealSegmentsLength]

\* getInitialMatchingPaths: the MatchingPath of every route that matches, in
\* route-table order.
RECURSIVE initialFrom(_, _, _)
initialFrom(paths, pathToUse, i) ==
    IF i > Len(paths) THEN <<>>
    ELSE LET path == paths[i]
             pathType == IF path.Pattern = <<"", SplatSegment>>
                         THEN PathTypeUltimateCatch ELSE path.PathType
         IN  With(matcher(path.Pattern, pathToUse), LAMBDA matcherOutput :
                 IF matcherOutput.matches
                 THEN <<[Score |-> matcherOutput.score,
                         RealSegmentsLength |-> matcherOutput.realSegmentsLength,
                         PathType |-> pathType,
                         OutPath |-> path.OutPath,
                         Segments |-> path.Segments,
                         DataFuncs |-> path.DataFuncs,
                         Params |-> matcherOutput.params]>>
                      \o initialFrom(paths, pathToUse, i + 1)
                 ELSE initialFrom(paths, pathToUse, i + 1))

getInitialMatchingPaths(paths, pathToUse) == initialFrom(paths, pathToUse, 1)

\* -------------------------------------------------------------- resolver

\* getBaseSplatSegments: a pointer to the non-empty segments of the path
getBaseSplatSegments(path) == Ptr(NonEmpty(path))

\* getSplatSegmentsFromWinningPath
getSplatSegmentsFromWinningPath(winner, path) ==
    LET filteredData == NonEmpty(path)
        numOfNonSplatSegments ==
            Cardinality({i \in 1..Len(winner.Segments) : winner.Segments[i] # SplatSegment})
        numOfSplatSegments == Len(filteredData) - numOfNonSplatSegments
    IN  IF numOfSplatSegments > 0
        THEN Ptr(SubSeq(filteredData, Len(filteredData) - numOfSplatSegments + 1,
                        Len(filteredData)))
        ELSE Ptr(<<>>)

\* getWinnerIsDynamicIndex
getWinnerIsDynamicIndex(winner) ==
    LET segmentsLength == Len(winner.Segments)
    IN  IF winner.PathType = PathTypeIndex /\ segmentsLength >= 2
        THEN HasColonPrefix(winner.Segments[segmentsLength - 1])
        ELSE FALSE

\* findNonUltimateSplat: the first non-ultimate-splat of the group, or nil
findNonUltimateSplat(paths) ==
    LET hits == SelectSeq(paths, LAMBDA x : x.PathType = PathTypeNonUltimateSplat)
    IN  IF hits = <<>> THEN Nil ELSE Ptr(hits[1])

\* getHighestScoresBySegmentLength: segment length -> highest score
getHighestScoresBySegmentLength(matches) ==
    LET lengths == {Len(matches[i].Segments) : i \in 1..Len(matches)}
        scoresAt(n) == {matches[i].Score :
                           i \in {j \in 1..Len(matches) : Len(matches[j].Segments) = n}}
    IN  [n \in lengths |-> CHOOSE sc \in scoresAt(n) : \A t \in scoresAt(n) : t <= sc]

\* the elements of paths whose segment length is n, n = from..to, in order
RECURSIVE byLength(_, _, _)
byLength(paths, from, to) ==
    IF from > to THEN <<>>
    ELSE SelectSeq(paths, LAMBDA x : Len(x.Segments) = from) \o byLength(paths, from + 1, to)

MaxLength(paths) ==
    IF paths = <<>> THEN 0
    ELSE CHOOSE n \in {Len(paths[i].Segments) : i \in 1..Len(paths)} :
            \A i \in 1..Len(paths) : Len(paths[i].Segments) <= n

\* getMaybeFinalPaths: definite matches, then the winners, sorted by segment
\* length; sort.Slice is an insertion sort (stable) for up to 12 elements.
getMaybeFinalPaths(definiteMatches, xformedMaybes) ==
    With(definiteMatches \o xformedMaybes, LAMBDA all :
        byLength(all, 0, MaxLength(all)))

\* getSortedGroupedBySegmentLength of the contested matches that beat the
\* definite matches of their segment length: the groups, by ascending length.
RECURSIVE groupsFrom(_, _, _)
groupsFrom(contested, from, to) ==
    IF from > to THEN <<>>
    ELSE LET group == SelectSeq(contested, LAMBDA x : Len(x.Segments) = from)
         IN  (IF group = <<>> THEN <<>> ELSE <<group>>)
             \o groupsFrom(contested, from + 1, to)

getSortedGroupedBySegmentLength(paths, highestScores) ==
    With(SelectSeq(paths, LAMBDA x :
             /\ x.PathType # PathTypeStaticLayout
             /\ \/ Len(x.Segments) \notin DOMAIN highestScores
                \/ x.Score > highestScores[Len(x.Segments)]),
         LAMBDA contested : groupsFrom(contested, 0, MaxLength(contested)))

\* the winner loop over one group
RECURSIVE winnerLoop(_, _, _, _)
winnerLoop(paths, i, winner, indexCandidate) ==
    IF i > Len(paths)
    THEN IF indexCandidate # Nil THEN Deref(indexCandidate) ELSE winner
    ELSE LET path == paths[i]
             isCandidate == path.PathType = PathTypeIndex
                            /\ path.RealSegmentsLength < Len(path.Segments)
             newCandidate == IF isCandidate
                                /\ (indexCandidate = Nil
                                    \/ path.Score > Deref(indexCandidate).Score)
                             THEN Ptr(path) ELSE indexCandidate
             newWinner == IF path.Score > winner.Score THEN path ELSE winner
         IN  winnerLoop(paths, i + 1, newWinner, newCandidate)

groupWinner(paths) == winnerLoop(paths, 1, paths[1], Nil)

\* whether a definite (static-layout) match overrides a dynamic-index winner
definiteMatchesShouldOverride(definiteMatches, winner) ==
    /\ getWinnerIsDynamicIndex(winner)
    /\ \E k \in 1..Len(definiteMatches) :
          LET x == definiteMatches[k]
              a == x.PathType = PathTypeStaticLayout
              b == x.RealSegmentsLength = winner.RealSegmentsLength
              c == IF Len(x.Segments) >= 1 /\ Len(winner.Segments) >= 2
                   THEN Last(x.Segments) # winner.Segments[Len(winner.Segments) - 1]
                   ELSE FALSE
              d == x.Score > winner.Score
          IN  a /\ b /\ c /\ d

\* one turn of the loop over the sorted groups, on the group paths;
\* acc = [xformedMaybes, wildcardSplat, splatSegments]
groupStep(paths, definiteMatches, path, acc) ==
    With(groupWinner(paths), LAMBDA winner :
        LET splat == findNonUltimateSplat(paths)
        IN  [xformedMaybes |->
                 IF definiteMatchesShouldOverride(definiteMatches, winner)
                 THEN acc.xformedMaybes
                 ELSE Append(acc.xformedMaybes, winner),
             wildcardSplat |->
                 IF splat # Nil
                    /\ (acc.wildcardSplat = Nil
                        \/ Deref(splat).Score > Deref(acc.wildcardSplat).Score)
                 THEN splat ELSE acc.wildcardSplat,
             splatSegments |->
                 IF splat # Nil THEN getSplatSegmentsFromWinningPath(winner, path)
                 ELSE acc.splatSegments])

RECURSIVE groupLoop(_, _, _, _, _)
groupLoop(groups, i, definiteMatches, path, acc) ==
    IF i > Len(groups) THEN acc
    ELSE With(groupStep(groups[i], definiteMatches, path, acc), LAMBDA next :
             groupLoop(groups, i + 1, definiteMatches, path, next))

\* the first filter: drop matches longer than the path and ineligible indices
passesLengthFilterStrict(x, path) ==
    IF x.RealSegmentsLength = 0 THEN TRUE
    ELSE LET indexAdjustedRealSegmentsLength ==
                 IF x.PathType = PathTypeIndex THEN x.RealSegmentsLength + 1
                 ELSE x.RealSegmentsLength
         IN  IF Len(x.Segments) >= indexAdjustedRealSegmentsLength THEN FALSE
             ELSE IF x.PathType # PathTypeIndex THEN TRUE
             ELSE Len(NonEmpty(x.Segments)) = Len(NonEmpty(path))

passesLengthFilter(x, path) ==
    IF x.RealSegmentsLength = 0 THEN TRUE
    ELSE LET indexAdjustedRealSegmentsLength ==
                 IF x.PathType = PathTypeIndex THEN x.RealSegmentsLength + 1
                 ELSE x.RealSegmentsLength
         IN  IF Len(x.Segments) > indexAdjustedRealSegmentsLength THEN FALSE
             ELSE IF x.PathType # PathTypeIndex THEN TRUE
             ELSE Len(NonEmpty(x.Segments)) = Len(NonEmpty(path))

\* the adjacency loop: a dynamic layout right before an index that does not
\* share its dynamic segment is removed in place; i keeps counting up.
RECURSIVE adjacencyLoop(_, _)
adjacencyLoop(paths, i) ==
    IF i > Len(paths) THEN [paths |-> paths, panic |-> FALSE]
    ELSE LET current == paths[i]
             hasNext == i + 1 <= Len(paths)
         IN  IF current.PathType = PathTypeDynamicLayout
                /\ hasNext /\ paths[i + 1].PathType = PathTypeIndex
             THEN IF Len(paths[i + 1].Segments) < 2
                  THEN [paths |-> paths, panic |-> TRUE]
                  ELSE IF Last(current.Segments)
                          # paths[i + 1].Segments[Len(paths[i + 1].Segments) - 1]
                       THEN adjacencyLoop(SubSeq(paths, 1, i - 1)
                                          \o SubSeq(paths, i + 1, Len(paths)), i + 1)
                       ELSE adjacencyLoop(paths, i + 1)
             ELSE adjacencyLoop(paths, i + 1)

\* the splat correction on the sorted chain
needsDifferentSplat(lastPath) ==
    LET lastPathSegmentsLengthConstructive ==
            IF lastPath.PathType = PathTypeIndex THEN Len(lastPath.Segments) - 1
            ELSE Len(lastPath.Segments)
        splatIsTooFarOut == lastPathSegmentsLengthConstructive > lastPath.RealSegmentsLength
        splatIsNeeded == lastPathSegmentsLengthConstructive < lastPath.RealSegmentsLength
        isNotASplat == lastPath.PathType # PathTypeNonUltimateSplat
    IN  splatIsTooFarOut \/ (splatIsNeeded /\ isNotASplat)

\* filterPaths without the suppression of the ultimate catch-all
filterPathsKeepingCatch(pathsArg, path) ==
    SelectSeq(pathsArg, LAMBDA x : passesLengthFilter(x, path))

\* the first part of getMatchingPathsInternal: the length filter, then the
\* ultimate catch-all is dropped when something else is left
filterPaths(pathsArg, path) ==
    With(SelectSeq(pathsArg, LAMBDA x : passesLengthFilter(x, path)), LAMBDA filtered :
        IF Len(filtered) > 1
        THEN SelectSeq(filtered, LAMBDA x : x.PathType # PathTypeUltimateCatch)
        ELSE filtered)

\* the last part of getMatchingPathsInternal: the splat correction and the
\* adjacency loop on the sorted chain maybeFinalPaths
finishPaths(pathsArg, path, maybeFinalPaths, acc) ==
    LET needSplat == maybeFinalPaths # <<>> /\ needsDifferentSplat(Last(maybeFinalPaths))
        catches == SelectSeq(pathsArg, LAMBDA x : x.PathType = PathTypeUltimateCatch)
    IN  IF needSplat /\ acc.wildcardSplat = Nil
        THEN [splatSegments |-> getBaseSplatSegments(path),
              paths |-> IF catches = <<>> THEN <<>> ELSE <<catches[1]>>,
              panic |-> FALSE]
        ELSE With(adjacencyLoop(IF needSplat
                                THEN [maybeFinalPaths EXCEPT ![Len(maybeFinalPaths)] =
                                                                Deref(acc.wildcardSplat)]
                                ELSE maybeFinalPaths, 1),
                  LAMBDA adjacent :
                      [splatSegments |-> IF needSplat
                                         THEN getSplatSegmentsFromWinningPath(
                                                  Deref(acc.wildcardSplat), path)
                                         ELSE acc.splatSegments,
                       paths |-> adjacent.paths, panic |-> adjacent.panic])

\* the middle part of getMatchingPathsInternal, for zero or several paths:
\* definite matches, the contested groups and their winners
nestedPaths(pathsArg, path, paths) ==
    With(SelectSeq(paths, LAMBDA x : x.PathType = PathTypeStaticLayout),
         LAMBDA definiteMatches :
    With(getSortedGroupedBySegmentLength(
             paths, getHighestScoresBySegmentLength(definiteMatches)),
         LAMBDA groups :
    With(groupLoop(groups, 1, definiteMatches, path,
                   [xformedMaybes |-> <<>>, wildcardSplat |-> Nil,
                    splatSegments |-> Nil]),
         LAMBDA acc :
    With(getMaybeFinalPaths(definiteMatches, acc.xformedMaybes),
         LAMBDA maybeFinalPaths :
             finishPaths(pathsArg, path, maybeFinalPaths, acc)))))

\* getMatchingPathsInternal: [splatSegments, paths, panic]
getMatchingPathsInternal(pathsArg, path) ==
    With(filterPaths(pathsArg, path), LAMBDA paths :
        IF Len(paths) = 1
        THEN [splatSegments |-> IF paths[1].PathType = PathTypeUltimateCatch
                                THEN getBaseSplatSegments(path) ELSE Nil,
              paths |-> paths, panic |-> FALSE]
        ELSE nestedPaths(pathsArg, path, paths))

\* ------------------------------------------------------------ route tables

pCatch == <<"$">>
pRootIndex == <<"_index">>
pRootDynIndex == <<"$id", "_index">>
pTiger == <<"tiger">>
pTigerIndex == <<"tiger", "_index">>
pTigerId == <<"tiger", "$tiger_id">>
pTigerIdIndex == <<"tiger", "$tiger_id", "_index">>
pTigerIdSplat == <<"tiger", "$tiger_id", "$">>
pTigerCub == <<"tiger", "$tiger_id", "$tiger_cub_id">>
pTigerCubIndex == <<"tiger", "$tiger_id", "$tiger_cub_id", "_index">>
pTiger123 == <<"tiger", "123">>
pTigerSplat == <<"tiger", "$">>
pId == <<"$id">>
pIdTiger == <<"$id", "tiger">>
pTigerTiger == <<"tiger", "tiger">>
pTigerIdTiger == <<"$tiger_id", "tiger">>
pTiger123456 == <<"tiger", "123", "456">>
pTiger123Index == <<"tiger", "123", "_index">>
pDeepDynIndex == <<"$id", "$tiger_id", "$tiger_cub_id", "$id", "_index">>

TigerBasic == <<pTiger, pTigerIndex, pTigerId, pTigerIdIndex>>
TigerSplat == <<pTiger, pTigerIndex, pTigerId, pTigerIdIndex, pTigerIdSplat>>
TigerFull == <<pCatch, pRootIndex, pTiger, pTigerId, pTigerIndex, pTigerIdSplat,
               pTigerCub, pTigerIdIndex>>
TigerDeep == <<pCatch, pTiger, pTigerId, pTigerCub, pTigerCubIndex>>

\* the page sets the resolver is checked on
Tables ==
    { TigerBasic, TigerSplat, TigerFull, TigerDeep,
      <<>>, <<pCatch>>, <<pRootIndex>>, <<pCatch, pRootIndex>>,
      <<pCatch, pRootIndex, pRootDynIndex>>,
      <<pTiger>>, <<pTiger, pTigerId>>, <<pCatch, pTiger, pTigerIndex>>,
      <<pCatch, pRootIndex, pTiger, pTigerSplat, pTigerIndex>>,
      <<pCatch, pTiger, pTigerId, pTigerIdIndex, pTiger123>>,
      <<pCatch, pRootIndex, pTiger, pTiger123, pTigerIdSplat>>,
      <<pId, pTiger123>>, <<pCatch, pId>>, <<pIdTiger, pTigerTiger>>,
      <<pTigerTiger, pIdTiger>>,
      <<pIdTiger, pTigerIdTiger>>, <<pTiger, pTigerTiger, pIdTiger>>,
      <<pTiger, pTiger123, pTiger123Index>>,
      <<pDeepDynIndex, pTiger123456>>, <<pId, pTigerId, pTiger123Index>> }

\* every page of the route tables
AllPages ==
    { pCatch, pRootIndex, pRootDynIndex, pTiger, pTigerIndex, pTigerId, pTigerIdIndex,
      pTigerIdSplat, pTigerCub, pTigerCubIndex, pTiger123, pTigerSplat,
      pId, pIdTiger, pTigerTiger, pTigerIdTiger, pTiger123456, pDeepDynIndex,
      pTiger123Index }

\* DataFuncsMap: the data functions registered per page, with which of
\* Loader, Action and Head are set; a page may have no entry
AllFuncs == [page \in AllPages |-> [Loader |-> TRUE, Action |-> TRUE, Head |-> TRUE]]

NoFuncs == [page \in {} |-> [Loader |-> FALSE, Action |-> FALSE, Head |-> FALSE]]

MixedFuncs ==
    [page \in {p \in AllPages : Len(p) # 2} |->
        CASE Len(page) = 1 -> [Loader |-> TRUE, Action |-> FALSE, Head |-> TRUE]
          [] Len(page) = 3 -> [Loader |-> FALSE, Action |-> TRUE, Head |-> FALSE]
          [] OTHER         -> [Loader |-> TRUE, Action |-> TRUE, Head |-> FALSE]]

\* Initialize: the route table of the pages, with OutPath as the build sets it
\* (one output file per page) and DataFuncs as addDataFuncsToPaths attaches them
Initialize(pages, DataFuncsMap) ==
    [i \in 1..Len(pages) |->
        LET path == walkPages(pages[i])
        IN  [Pattern |-> path.Pattern, Segments |-> path.Segments,
             PathType |-> path.PathType, SrcPath |-> path.SrcPath,
             OutPath |-> pages[i],
             DataFuncs |-> IF pages[i] \in DOMAIN DataFuncsMap
                           THEN Ptr(DataFuncsMap[pages[i]]) ELSE Nil]]

\* ---------------------------------------------------------------- requests

PathSegs == {"tiger", "123", "456", ":tiger_id", ""}

SeqsUpTo(S, n) == UNION {[1..k -> S] : k \in 1..n}

\* every request path "/s1/.../sk", k = 1..MaxPathSegs
Paths == {<<"">> \o s : s \in SeqsUpTo(PathSegs, MaxPathSegs)}

Methods == {"GET", "POST"}

\* var acceptedMethods
acceptedMethods == {"POST", "PUT", "PATCH", "DELETE"}

\* what a Loader or an Action may return as (data, error): each of the two is
\* nil or not, and nothing keeps a function from returning both
Outcomes ==
    {[data |-> d, err |-> e] : d \in {Nil, Ptr("data")}, e \in {Nil, Ptr("err")}}

NoOutcome == [data |-> Nil, err |-> Nil]

\* the request path taken as it is
normalizePathKeepingSlash(path) == path

\* the request path with one trailing slash stripped, unless it is "/"
normalizePath(path) ==
    IF path # <<"", "">> /\ Last(path) = "" THEN SubSeq(path, 1, Len(path) - 1)
    ELSE path

\* decoratePaths
decoratePaths(paths) ==
    [i \in 1..Len(paths) |-> [DataFuncs |-> paths[i].DataFuncs,
                              PathType |-> paths[i].PathType]]

\* the miss branch of getMatchingPathData: resolve the path and build the item
resolveItem(table, path) ==
    With(getInitialMatchingPaths(table, path), LAMBDA initialMatchingPaths :
    With(getMatchingPathsInternal(initialMatchingPaths, path), LAMBDA res :
        [panic |-> res.panic,
         matchingPaths |-> res.paths,
         isSpam |-> Len(res.paths) = 0,
         item |-> [ImportURLs |-> [i \in 1..Len(res.paths) |->
                                     <<"/", res.paths[i].OutPath>>],
                   FullyDecoratedMatchingPaths |-> decoratePaths(res.paths),
                   SplatSegments |-> res.splatSegments,
                   Params |-> IF Len(res.paths) > 0 THEN Last(res.paths).Params
                              ELSE Nil]]))

NoItem == [ImportURLs |-> <<>>, FullyDecoratedMatchingPaths |-> <<>>,
           SplatSegments |-> Nil, Params |-> Nil]

\* ------------------------------------------------------- resolution cache

\* gmpdCache.Get: (value, ok)
cacheGet(cache, key) ==
    IF key \in DOMAIN cache THEN [ok |-> TRUE, value |-> cache[key].value]
    ELSE [ok |-> FALSE, value |-> NoItem]

\* gmpdCache.Set(key, value, isSpam)
cacheSet(cache, key, value, isSpam) ==
    [k \in (DOMAIN cache) \cup {key} |->
        IF k = key THEN [value |-> value, isSpam |-> isSpam] ELSE cache[k]]

\* ------------------------------------------------------- error reduction

\* findClosestParentErrorBoundaryIndex, with Go's 0-based indices
RECURSIVE closestFrom(_, _)
closestFrom(activeErrorBoundaries, i) ==
    IF i < 0 THEN -1
    ELSE IF activeErrorBoundaries[i + 1] # Nil
         THEN Len(activeErrorBoundaries) - 1 - i
         ELSE closestFrom(activeErrorBoundaries, i - 1)

findClosestParentErrorBoundaryIndex(activeErrorBoundaries, outermostErrorIndex) ==
    closestFrom(activeErrorBoundaries, outermostErrorIndex)

\* the index of the first loader error, or -1
firstErrorIndex(errs) ==
    IF \E i \in 1..Len(errs) : errs[i] # Nil
    THEN (CHOOSE i \in 1..Len(errs) :
            errs[i] # Nil /\ \A j \in 1..(i - 1) : errs[j] = Nil) - 1
    ELSE -1

\* reduceErrors with closestParentErrorBoundaryIndex starting at -1, the value
\* findClosestParentErrorBoundaryIndex returns when it finds no boundary
reduceErrorsWithoutSentinel(loaders, errs, actionDataError) ==
    LET loaderErrors == \E i \in 1..Len(errs) : errs[i] # Nil
        firstIndex == firstErrorIndex(errs)
        thereAreErrors == loaderErrors \/ actionDataError # Nil
        actionDataErrorIndex == Len(loaders) - 1
        outermostErrorIndex ==
            IF actionDataError # Nil /\ actionDataErrorIndex < firstIndex
            THEN actionDataErrorIndex ELSE firstIndex
        closestParentErrorBoundaryIndex ==
            IF thereAreErrors /\ outermostErrorIndex # -1
            THEN LET closest == findClosestParentErrorBoundaryIndex(
                                    loaders, outermostErrorIndex)
                 IN  IF closest # -1 THEN outermostErrorIndex - closest ELSE closest
            ELSE -1
    IN  [thereAreErrors |-> thereAreErrors,
         outermostErrorIndex |-> outermostErrorIndex,
         closestParentErrorBoundaryIndex |-> closestParentErrorBoundaryIndex]

\* the error reduction of getMatchingPathData, after wg.Wait()
reduceErrors(loaders, errs, actionDataError) ==
    LET loaderErrors == \E i \in 1..Len(errs) : errs[i] # Nil
        firstIndex == firstErrorIndex(errs)
        thereAreErrors == loaderErrors \/ actionDataError # Nil
        actionDataErrorIndex == Len(loaders) - 1
        outermostErrorIndex ==
            IF actionDataError # Nil /\ actionDataErrorIndex < firstIndex
            THEN actionDataErrorIndex ELSE firstIndex
        closestParentErrorBoundaryIndex ==
            IF thereAreErrors /\ outermostErrorIndex # -1
            THEN LET closest == findClosestParentErrorBoundaryIndex(
                                    loaders, outermostErrorIndex)
                 IN  IF closest # -1 THEN outermostErrorIndex - closest ELSE closest
            ELSE -2
    IN  [thereAreErrors |-> thereAreErrors,
         outermostErrorIndex |-> outermostErrorIndex,
         closestParentErrorBoundaryIndex |-> closestParentErrorBoundaryIndex]

\* the heads of the chain, nil where an entry has no Head
activeHeadsOf(chain) ==
    [i \in 1..Len(chain) |->
        IF chain[i].DataFuncs = Nil \/ ~Deref(chain[i].DataFuncs).Head
        THEN Nil ELSE Ptr("head")]

\* s[:n] on a Go slice: a run-time panic unless 0 <= n <= cap(s), and here cap(s) >= len(s) >= n
sliceTo(s, n) == IF n < 0 \/ n > Len(s) THEN [panic |-> TRUE, v |-> <<>>]
                 ELSE [panic |-> FALSE, v |-> SubSeq(s, 1, n)]

\* the tail of getMatchingPathData: the ActivePathData it returns, or the
\* run-time panic it ends in
buildActivePathData(it, loaders, red, action) ==
    LET activeHeads == activeHeadsOf(it.FullyDecoratedMatchingPaths)
        k == red.outermostErrorIndex
        locMatchingPaths == sliceTo(it.FullyDecoratedMatchingPaths, k + 1)
        locActiveHeads == sliceTo(activeHeads, k)
        locLoadersData == sliceTo(loaders, k)
        locImportURLs == sliceTo(it.ImportURLs, k + 1)
        n == Len(it.ImportURLs)
    IN  IF red.thereAreErrors
        THEN IF locMatchingPaths.panic \/ locActiveHeads.panic
                \/ locLoadersData.panic \/ locImportURLs.panic
             THEN [panic |-> "slice bounds out of range", data |-> Nil]
             \* *activePathData.ActionData = ... writes through the nil pointer
             \* of the fresh ActivePathData{}
             ELSE [panic |-> "nil pointer dereference", data |-> Nil]
        ELSE [panic |-> "",
              data |-> Ptr([MatchingPaths |-> it.FullyDecoratedMatchingPaths,
                            ActiveHeads |-> activeHeads,
                            LoadersData |-> loaders,
                            ImportURLs |-> it.ImportURLs,
                            OutermostErrorBoundaryIndex |->
                                red.closestParentErrorBoundaryIndex,
                            ActionData |-> [i \in 1..n |->
                                              IF i = n THEN action.data ELSE Nil],
                            SplatSegments |-> it.SplatSegments,
                            Params |-> it.Params])]

\* ------------------------------------------------------------ head blocks

\* A string of a head block (tag, attribute key or value, title) is the
\* sequence of its characters, so that stableHash can concatenate and sort.
Ascii ==
    ("&" :> 38) @@ ("1" :> 49) @@ ("2" :> 50) @@ ("=" :> 61) @@ ("a" :> 97)
    @@ ("b" :> 98) @@ ("c" :> 99) @@ ("d" :> 100) @@ ("e" :> 101) @@ ("i" :> 105)
    @@ ("k" :> 107) @@ ("l" :> 108) @@ ("m" :> 109) @@ ("n" :> 110) @@ ("o" :> 111)
    @@ ("p" :> 112) @@ ("r" :> 114) @@ ("s" :> 115) @@ ("t" :> 116) @@ ("|" :> 124)

\* a < b for Go strings: bytewise lexicographic order
RECURSIVE StringLess(_, _)
StringLess(a, b) ==
    IF b = <<>> THEN FALSE
    ELSE IF a = <<>> THEN TRUE
    ELSE IF Ascii[Head(a)] # Ascii[Head(b)] THEN Ascii[Head(a)] < Ascii[Head(b)]
    ELSE StringLess(Tail(a), Tail(b))

\* sort.Strings, as an insertion of each string into the sorted rest
RECURSIVE sortStrings(_)
sortStrings(parts) ==
    IF parts = <<>> THEN <<>>
    ELSE LET rest == sortStrings(Tail(parts))
             smaller == SelectSeq(rest, LAMBDA x : StringLess(x, Head(parts)))
             others == SelectSeq(rest, LAMBDA x : ~StringLess(x, Head(parts)))
         IN  smaller \o <<Head(parts)>> \o others

\* the keys of a map in some order (Go's map iteration order is unspecified;
\* the parts are sorted afterwards)
RECURSIVE keysOf(_)
keysOf(keys) ==
    IF keys = {} THEN <<>>
    ELSE LET k == CHOOSE x \in keys : TRUE IN <<k>> \o keysOf(keys \ {k})

\* strings joined by a separator string
RECURSIVE joinStrings(_, _)
joinStrings(parts, sep) ==
    IF parts = <<>> THEN <<>>
    ELSE IF Len(parts) = 1 THEN parts[1]
    ELSE parts[1] \o sep \o joinStrings(Tail(parts), sep)

\* m[key] on a Go map: the zero value "" for a missing key
MapGet(m, key) == IF key \in DOMAIN m THEN m[key] ELSE <<>>

\* stableHash
stableHash(block) ==
    LET keys == keysOf(DOMAIN block.Attributes)
        parts == [i \in 1..Len(keys) |-> keys[i] \o <<"=">> \o block.Attributes[keys[i]]]
    IN  block.Tag \o <<"|">> \o joinStrings(sortStrings(parts), <<"&">>)

sMeta == <<"m", "e", "t", "a">>
sName == <<"n", "a", "m", "e">>
sDescription == <<"d", "e", "s", "c", "r", "i", "p", "t", "i", "o", "n">>

isTitleBlock(block) == Len(block.Title) > 0

isDescriptionBlock(block) ==
    /\ ~isTitleBlock(block)
    /\ block.Tag = sMeta
    /\ MapGet(block.Attributes, sName) = sDescription

RECURSIVE dedupeFromKeepingFirst(_, _, _)
dedupeFromKeepingFirst(blocks, i, acc) ==
    IF i > Len(blocks) THEN acc.dedupedBlocks
    ELSE LET block == blocks[i] IN
         IF isTitleBlock(block)
         THEN IF acc.titleIdx = -1
              THEN dedupeFromKeepingFirst(blocks, i + 1,
                       [acc EXCEPT !.titleIdx = Len(acc.dedupedBlocks),
                                   !.dedupedBlocks = Append(@, block)])
              ELSE dedupeFromKeepingFirst(blocks, i + 1, acc)
         ELSE IF block.Tag = sMeta /\ MapGet(block.Attributes, sName) = sDescription
         THEN IF acc.descriptionIdx = -1
              THEN dedupeFromKeepingFirst(blocks, i + 1,
                       [acc EXCEPT !.descriptionIdx = Len(acc.dedupedBlocks),
                                   !.dedupedBlocks = Append(@, block)])
              ELSE dedupeFromKeepingFirst(blocks, i + 1,
                       [acc EXCEPT !.dedupedBlocks[acc.descriptionIdx + 1] = block])
         ELSE IF stableHash(block) \in acc.uniqueBlocks
         THEN dedupeFromKeepingFirst(blocks, i + 1, acc)
         ELSE dedupeFromKeepingFirst(blocks, i + 1,
                  [acc EXCEPT !.uniqueBlocks = @ \cup {stableHash(block)},
                              !.dedupedBlocks = Append(@, block)])

\* the loop of dedupeHeadBlocks from block i on; acc holds dedupedBlocks,
\* titleIdx, descriptionIdx (0-based, -1 for none) and the keys of uniqueBlocks
RECURSIVE dedupeFrom(_, _, _)
dedupeFrom(blocks, i, acc) ==
    IF i > Len(blocks) THEN acc.dedupedBlocks
    ELSE LET block == blocks[i] IN
         IF isTitleBlock(block)
         THEN IF acc.titleIdx = -1
              THEN dedupeFrom(blocks, i + 1,
                       [acc EXCEPT !.titleIdx = Len(acc.dedupedBlocks),
                                   !.dedupedBlocks = Append(@, block)])
              ELSE dedupeFrom(blocks, i + 1,
                       [acc EXCEPT !.dedupedBlocks[acc.titleIdx + 1] = block])
         ELSE IF block.Tag = sMeta /\ MapGet(block.Attributes, sName) = sDescription
         THEN IF acc.descriptionIdx = -1
              THEN dedupeFrom(blocks, i + 1,
                       [acc EXCEPT !.descriptionIdx = Len(acc.dedupedBlocks),
                                   !.dedupedBlocks = Append(@, block)])
              ELSE dedupeFrom(blocks, i + 1,
                       [acc EXCEPT !.dedupedBlocks[acc.descriptionIdx + 1] = block])
         ELSE IF stableHash(block) \in acc.uniqueBlocks
         THEN dedupeFrom(blocks, i + 1, acc)
         ELSE dedupeFrom(blocks, i + 1,
                  [acc EXCEPT !.uniqueBlocks = @ \cup {stableHash(block)},
                              !.dedupedBlocks = Append(@, block)])

\* dedupeHeadBlocks
dedupeHeadBlocks(blocks) ==
    dedupeFrom(blocks, 1, [dedupedBlocks |-> <<>>, titleIdx |-> -1,
                           descriptionIdx |-> -1, uniqueBlocks |-> {}])

\* the title sortHeadBlocks reports: that of the last title block, "" for none
RECURSIVE lastTitle(_, _)
lastTitle(blocks, i) ==
    IF i = 0 THEN <<>>
    ELSE IF Len(blocks[i].Title) > 0 THEN blocks[i].Title
    ELSE lastTitle(blocks, i - 1)

\* sortHeadBlocks with a rest partition that takes the meta blocks as well
sortHeadBlocksMetaInRest(blocks) ==
    [title |-> lastTitle(blocks, Len(blocks)),
     metaHeadBlocks |-> SelectSeq(blocks, LAMBDA b : Len(b.Title) = 0 /\ b.Tag = sMeta),
     restHeadBlocks |-> SelectSeq(blocks, LAMBDA b : Len(b.Title) = 0)]

\* sortHeadBlocks
sortHeadBlocks(blocks) ==
    [title |-> lastTitle(blocks, Len(blocks)),
     metaHeadBlocks |-> SelectSeq(blocks, LAMBDA b : Len(b.Title) = 0 /\ b.Tag = sMeta),
     restHeadBlocks |-> SelectSeq(blocks, LAMBDA b : Len(b.Title) = 0 /\ b.Tag # sMeta)]

\* head blocks: titles, descriptions, and other blocks, two of which have
\* different attributes and the same stableHash
titleBlock(t) == [Tag |-> <<>>, Attributes |-> EmptyMap, Title |-> t]

descriptionBlock(c) ==
    [Tag |-> sMeta,
     Attributes |-> (sName :> sDescription) @@ (<<"c">> :> c),
     Title |-> <<>>]

otherBlock(tag, attributes) == [Tag |-> tag, Attributes |-> attributes, Title |-> <<>>]

attrsAB == (<<"a">> :> <<"1">>) @@ (<<"b">> :> <<"2">>)
attrsAmp == (<<"a">> :> <<"1", "&", "b", "=", "2">>)

HeadBlockUniverse ==
    { titleBlock(<<"t", "1">>), titleBlock(<<"t", "2">>),
      descriptionBlock(<<"1">>), descriptionBlock(<<"2">>),
      otherBlock(sMeta, attrsAB), otherBlock(sMeta, attrsAmp),
      otherBlock(<<"l", "i", "n", "k">>, attrsAB) }

\* ------------------------------------------------------------- the system

NoRequest == [path |-> <<>>, method |-> ""]
NoReduction == [thereAreErrors |-> FALSE, outermostErrorIndex |-> -1,
                closestParentErrorBoundaryIndex |-> -2]
NoCalls == [action |-> <<>>, loaders |-> <<>>, returned |-> <<>>, heads |-> <<>>]
NoRouteData == [data |-> Nil, err |-> Nil]
NoProbe == [pattern |-> <<>>, path |-> <<>>, out |-> NoMatch]
NoWorkers == <<>>
NoInitializers == [calls |-> 0, running |-> <<>>, panicked |-> FALSE]
\* a range loop that has read no element yet; once it has, ranged is nil while
\* the slice it ranges over is the one instancePaths points to
NoLoop == [ranged |-> Nil, read |-> <<>>]

Idle ==
    /\ pc = "idle"
    /\ req = NoRequest
    /\ realPath = <<>>
    /\ cacheHit = FALSE
    /\ matchingPaths = <<>>
    /\ item = NoItem
    /\ actionData = NoOutcome
    /\ loadersData = <<>>
    /\ errors = <<>>
    /\ pending = {}
    /\ reduced = NoReduction
    /\ out = Nil
    /\ calls = NoCalls
    /\ headIndex = 0
    /\ headBlocks = <<>>
    /\ deduped = Nil
    /\ routeData = NoRouteData
    /\ probe = NoProbe

\* the program before Hwy.Initialize: no route table, an empty cache
Init ==
    /\ instancePaths = Nil
    /\ gmpdCache = EmptyMap
    /\ served = 0
    /\ workers = NoWorkers
    /\ initializers = NoInitializers
    /\ rangeLoop = NoLoop
    /\ Idle

\* the pages and data functions the request pipeline is checked on
PipelineHwys ==
    { [pages |-> <<pTiger, pTigerId>>, DataFuncsMap |-> AllFuncs],
      [pages |-> <<pCatch>>, DataFuncsMap |-> MixedFuncs] }

\* the Hwy values Initialize is called on: GetBasePaths is nil, or returns an
\* error, or returns the base paths of the pages, no DataFuncs in them yet
Hwys ==
    {[GetBasePaths |-> Ptr([paths |-> Initialize(h.pages, NoFuncs), err |-> Nil]),
      DataFuncsMap |-> h.DataFuncsMap] : h \in PipelineHwys}
    \cup {[GetBasePaths |-> Nil, DataFuncsMap |-> NoFuncs],
          [GetBasePaths |-> Ptr([paths |-> <<>>, err |-> Ptr("err")]),
           DataFuncsMap |-> NoFuncs]}

\* a range loop over *instancePaths when instancePaths is set to another
\* slice: the loop keeps the slice it started on, which nobody writes any more
retire(loop) ==
    IF loop.read # <<>> /\ loop.ranged = Nil
    THEN [loop EXCEPT !.ranged = instancePaths]
    ELSE loop

\* Hwy.Initialize up to `instancePaths = &paths`: with base paths obtained,
\* the global points to them as GetBasePaths returned them; gmpdCache keeps
\* its entries.  It is a public method and nothing orders it with the
\* requests being served or with another call of it.
CallInitialize(h) ==
    /\ UNCHANGED <<gmpdCache, pc, req, realPath, cacheHit, matchingPaths, item,
                   actionData, loadersData, errors, pending, reduced, out, served,
                   calls, headVars, probe>>
    /\ IF h.GetBasePaths # Nil /\ Deref(h.GetBasePaths).err = Nil
       THEN /\ initializers.calls < MaxInitializations
            /\ instancePaths' = Ptr(Deref(h.GetBasePaths).paths)
            /\ initializers' =
                  [initializers EXCEPT
                     !.calls = @ + 1,
                     !.running = Append(@, [pc |-> "ranging",
                                            DataFuncsMap |-> h.DataFuncsMap,
                                            srcPaths |-> <<>>, i |-> 0])]
            /\ rangeLoop' = retire(rangeLoop)
            /\ workers' = [w \in DOMAIN workers |->
                             [workers[w] EXCEPT !.loop = retire(workers[w].loop)]]
       ELSE UNCHANGED <<instancePaths, initializers, rangeLoop, workers>>

\* addDataFuncsToPaths, `range *instancePaths`: the loop is over the slice the
\* global points to now, which another call may have set in the meantime
RangeInstancePaths(k) ==
    /\ initializers.running[k].pc = "ranging"
    /\ initializers' =
          [initializers EXCEPT
             !.running =
                IF Len(Deref(instancePaths)) = 0
                THEN SubSeq(@, 1, k - 1) \o SubSeq(@, k + 1, Len(@))
                ELSE [@ EXCEPT ![k].pc = "attaching",
                               ![k].srcPaths = [j \in 1..Len(Deref(instancePaths)) |->
                                                  Deref(instancePaths)[j].SrcPath],
                               ![k].i = 1]]
    /\ UNCHANGED <<instancePaths, gmpdCache, pc, req, realPath, cacheHit, matchingPaths,
                   item, actionData, loadersData, errors, pending, reduced, out, served,
                   calls, headVars, probe, workers, rangeLoop>>

\* addDataFuncsToPaths, one iteration: with data functions registered for the
\* source path, `(*instancePaths)[i].DataFuncs = &dataFuncs` writes element i
\* of the slice the global points to now (index out of range if it is shorter)
AddDataFuncs(k) ==
    /\ initializers.running[k].pc = "attaching"
    /\ \E call \in {initializers.running[k]} :
       \E writes \in {call.srcPaths[call.i] \in DOMAIN call.DataFuncsMap} :
       \E panics \in {writes /\ call.i > Len(Deref(instancePaths))} :
          /\ instancePaths' =
                IF writes /\ ~panics
                THEN Ptr([Deref(instancePaths) EXCEPT
                            ![call.i].DataFuncs =
                                Ptr(call.DataFuncsMap[call.srcPaths[call.i]])])
                ELSE instancePaths
          /\ initializers' =
                [initializers EXCEPT
                   !.panicked = @ \/ panics,
                   !.running =
                      IF panics \/ call.i = Len(call.srcPaths)
                      THEN SubSeq(@, 1, k - 1) \o SubSeq(@, k + 1, Len(@))
                      ELSE [@ EXCEPT ![k].i = call.i + 1]]
    /\ UNCHANGED <<gmpdCache, pc, req, realPath, cacheHit, matchingPaths,
                   item, actionData, loadersData, errors, pending, reduced, out, served,
                   calls, headVars, probe, workers, rangeLoop>>

\* the paths requested in the pipeline specification
PipelinePaths ==
    { <<"">>, <<"", "">>, <<"", "tiger", "">>, <<"", "tiger", "", "">>,
      <<"", "tiger", "123", "">>, <<"", "123">> }

\* getMatchingPathData up to gmpdCache.Get: normalize the path and look it up
StartRequest(path, method) ==
    /\ pc = "idle"
    /\ served < MaxRequests
    /\ served' = served + 1
    /\ req' = [path |-> path, method |-> method]
    /\ UNCHANGED <<instancePaths, gmpdCache, matchingPaths, actionData, loadersData,
                   errors, pending, reduced, out>>
    /\ UNCHANGED <<calls, headVars, probe, workers, initializers, rangeLoop>>
    /\ IF path = <<"">>
       THEN \* realPath[len(realPath)-1] on the empty string
            /\ pc' = "panicked"
            /\ UNCHANGED <<realPath, cacheHit, item>>
       ELSE \E key \in {normalizePath(path)} :
            \E cached \in {cacheGet(gmpdCache, key)} :
                /\ realPath' = key
                /\ cacheHit' = cached.ok
                /\ IF cached.ok
                   THEN /\ item' = cached.value
                        /\ pc' = "action"
                   ELSE /\ pc' = "resolving"
                        /\ UNCHANGED item

\* the slice a range loop over *instancePaths ranges over
rangedPaths(loop) ==
    IF loop.ranged = Nil THEN Deref(instancePaths) ELSE Deref(loop.ranged)

\* one iteration of `for _, path := range *instancePaths` in
\* getInitialMatchingPaths: the next element is copied as it is now.  The
\* result is the loop after it, or done with the elements it has read.
rangeStep(loop) ==
    IF loop.read = <<>> /\ instancePaths = Nil
    THEN [panic |-> TRUE, done |-> FALSE, loop |-> loop]
    ELSE With(rangedPaths(loop), LAMBDA paths :
         With(IF Len(loop.read) < Len(paths)
              THEN Append(loop.read, paths[Len(loop.read) + 1])
              ELSE loop.read, LAMBDA read :
             [panic |-> FALSE, done |-> Len(read) = Len(paths),
              loop |-> [loop EXCEPT !.read = read]]))

\* the miss branch of getMatchingPathData before gmpdCache.Set: the loop of
\* getInitialMatchingPaths reads the route table an element at a time, and
\* after the last one the item is built from the elements as they were read
ReadPath ==
    /\ pc = "resolving"
    /\ UNCHANGED <<instancePaths, gmpdCache, req, realPath, cacheHit, actionData,
                   loadersData, errors, pending, reduced, out, served>>
    /\ UNCHANGED <<calls, headVars, probe, workers, initializers>>
    /\ \E step \in {rangeStep(rangeLoop)} :
          IF step.panic
          THEN \* range *instancePaths before Initialize
               /\ pc' = "panicked"
               /\ UNCHANGED <<matchingPaths, item, rangeLoop>>
          ELSE IF ~step.done
          THEN /\ rangeLoop' = step.loop
               /\ UNCHANGED <<pc, matchingPaths, item>>
          ELSE \E res \in {resolveItem(step.loop.read, realPath)} :
               /\ rangeLoop' = NoLoop
               /\ IF res.panic
                  THEN /\ pc' = "panicked"
                       /\ UNCHANGED <<matchingPaths, item>>
                  ELSE /\ matchingPaths' = res.matchingPaths
                       /\ item' = res.item
                       /\ pc' = "storing"

\* the miss branch of getMatchingPathData, its last statement: the item built
\* is stored, gmpdCache.Set(realPath, item, isSpam)
FillCache ==
    /\ pc = "storing"
    /\ gmpdCache' = cacheSet(gmpdCache, realPath, item, Len(matchingPaths) = 0)
    /\ pc' = "action"
    /\ UNCHANGED <<instancePaths, req, realPath, cacheHit, matchingPaths, item,
                   actionData, loadersData, errors, pending, reduced, out, served>>
    /\ UNCHANGED <<calls, headVars, probe, workers, initializers, rangeLoop>>

\* the paths of the requests served concurrently with the one followed
ConcurrentPaths == { <<"", "tiger", "123">> }

\* Another request, served by net/http on a goroutine of its own, normalizes
\* its path and looks it up.  Only its steps at the route table and the cache
\* are followed: on a hit it is gone, on a miss it stands before the miss
\* branch.
ConcurrentGet(path) ==
    /\ served < MaxRequests
    /\ served' = served + 1
    /\ \E key \in {normalizePath(path)} :
       \E cached \in {cacheGet(gmpdCache, key)} :
           workers' = IF cached.ok
                      THEN workers
                      ELSE Append(workers, [pc |-> "resolving", path |-> path, key |-> key,
                                            hit |-> FALSE, item |-> NoItem,
                                            loop |-> NoLoop])
    /\ UNCHANGED <<instancePaths, gmpdCache, pc, req, realPath, cacheHit, matchingPaths,
                   item, actionData, loadersData, errors, pending, reduced, out,
                   calls, headVars, probe, initializers, rangeLoop>>

\* the miss branch of another request before gmpdCache.Set, an iteration of
\* its loop over the route table at a time; one that panics is followed no
\* further
ConcurrentReadPath(w) ==
    /\ workers[w].pc = "resolving"
    /\ \E step \in {rangeStep(workers[w].loop)} :
          workers' =
             IF step.panic
             THEN SubSeq(workers, 1, w - 1) \o SubSeq(workers, w + 1, Len(workers))
             ELSE IF ~step.done
             THEN [workers EXCEPT ![w].loop = step.loop]
             ELSE IF resolveItem(step.loop.read, workers[w].key).panic
             THEN SubSeq(workers, 1, w - 1) \o SubSeq(workers, w + 1, Len(workers))
             ELSE [workers EXCEPT
                     ![w].pc = "storing",
                     ![w].loop = NoLoop,
                     ![w].item = resolveItem(step.loop.read, workers[w].key).item]
    /\ UNCHANGED <<instancePaths, gmpdCache, pc, req, realPath, cacheHit, matchingPaths,
                   item, actionData, loadersData, errors, pending, reduced, out, served,
                   calls, headVars, probe, initializers, rangeLoop>>

\* the miss branch of another request, its last statement: the item it built
\* is stored, gmpdCache.Set(realPath, item, isSpam), and the request is
\* followed no further
ConcurrentSet(w) ==
    /\ workers[w].pc = "storing"
    /\ gmpdCache' = cacheSet(gmpdCache, workers[w].key, workers[w].item,
                             Len(workers[w].item.FullyDecoratedMatchingPaths) = 0)
    /\ workers' = SubSeq(workers, 1, w - 1) \o SubSeq(workers, w + 1, Len(workers))
    /\ UNCHANGED <<instancePaths, pc, req, realPath, cacheHit, matchingPaths,
                   item, actionData, loadersData, errors, pending, reduced, out, served,
                   calls, headVars, probe, initializers, rangeLoop>>

\* a request normalizes its path and looks it up: gmpdCache.Get(realPath)
CacheLookup(w) ==
    /\ workers[w].pc = "start"
    /\ \E key \in {normalizePath(workers[w].path)} :
       \E cached \in {cacheGet(gmpdCache, key)} :
           workers' = [workers EXCEPT
                         ![w] = [pc |-> IF cached.ok THEN "done" ELSE "resolving",
                                 path |-> workers[w].path, key |-> key,
                                 hit |-> cached.ok, item |-> cached.value]]
    /\ UNCHANGED <<instancePaths, gmpdCache, pc, req, realPath, cacheHit, matchingPaths,
                   item, actionData, loadersData, errors, pending, reduced, out, served,
                   calls, headVars, probe, initializers, rangeLoop>>

\* the outcome of the miss branch for a request with the given cache key when
\* the route table does not change under it: a panic, or the item and the
\* cache after gmpdCache.Set under storeKey
missBranch(key, storeKey) ==
    IF instancePaths = Nil
    THEN [panic |-> TRUE, item |-> NoItem, cache |-> gmpdCache]
    ELSE LET res == resolveItem(Deref(instancePaths), key)
         IN  IF res.panic
             THEN [panic |-> TRUE, item |-> NoItem, cache |-> gmpdCache]
             ELSE [panic |-> FALSE, item |-> res.item,
                   cache |-> cacheSet(gmpdCache, storeKey, res.item, res.isSpam)]

\* CacheInsert with the item stored under the request path as it came
CacheInsertRawKey(w) ==
    /\ workers[w].pc = "resolving"
    /\ \E res \in {missBranch(workers[w].key, workers[w].path)} :
           /\ workers' = [workers EXCEPT
                             ![w].pc = IF res.panic THEN "panicked" ELSE "done",
                             ![w].item = res.item]
           /\ gmpdCache' = res.cache
    /\ UNCHANGED <<instancePaths, pc, req, realPath, cacheHit, matchingPaths,
                   item, actionData, loadersData, errors, pending, reduced, out, served,
                   calls, headVars, probe, initializers, rangeLoop>>

\* a request that missed resolves the path and stores the item:
\* gmpdCache.Set(realPath, item, isSpam)
CacheInsert(w) ==
    /\ workers[w].pc = "resolving"
    /\ \E res \in {missBranch(workers[w].key, workers[w].key)} :
           /\ workers' = [workers EXCEPT
                             ![w].pc = IF res.panic THEN "panicked" ELSE "done",
                             ![w].item = res.item]
           /\ gmpdCache' = res.cache
    /\ UNCHANGED <<instancePaths, pc, req, realPath, cacheHit, matchingPaths,
                   item, actionData, loadersData, errors, pending, reduced, out, served,
                   calls, headVars, probe, initializers, rangeLoop>>

\* the DataFuncs of the deepest chain entry, nil for an empty chain
lastDataFuncs(it) ==
    IF Len(it.FullyDecoratedMatchingPaths) > 0
    THEN Last(it.FullyDecoratedMatchingPaths).DataFuncs ELSE Nil

actionExists(it) == lastDataFuncs(it) # Nil /\ Deref(lastDataFuncs(it)).Action

\* getActionData, given what the Action returns when it is called
getActionData(method, outcome) ==
    IF method \notin acceptedMethods
    THEN [data |-> Nil, err |-> Ptr("method not allowed")]
    ELSE outcome

actionCalledAnyMethod(method, it) == actionExists(it)

\* whether getMatchingPathData reaches the call actionFunc(...) of
\* getActionData: the deepest entry has an Action and the method is accepted
actionCalled(method, it) == actionExists(it) /\ method \in acceptedMethods

\* the action call of getMatchingPathData, then the loader tasks are started
RunAction(outcome) ==
    /\ pc = "action"
    /\ actionData' = IF actionExists(item) THEN getActionData(req.method, outcome)
                     ELSE NoOutcome
    /\ loadersData' = [i \in 1..Len(item.FullyDecoratedMatchingPaths) |-> Nil]
    /\ errors' = [i \in 1..Len(item.FullyDecoratedMatchingPaths) |-> Nil]
    /\ pending' = 1..Len(item.FullyDecoratedMatchingPaths)
    /\ calls' = [calls EXCEPT
                   !.action = IF actionCalled(req.method, item)
                              THEN <<Len(item.FullyDecoratedMatchingPaths) - 1>>
                              ELSE <<>>,
                   !.loaders = [i \in 1..Len(item.FullyDecoratedMatchingPaths) |-> 0],
                   !.returned = [i \in 1..Len(item.FullyDecoratedMatchingPaths) |->
                                   NoOutcome]]
    /\ pc' = "loaders"
    /\ UNCHANGED <<instancePaths, gmpdCache, req, realPath, cacheHit, matchingPaths,
                   item, reduced, out, served, headVars, probe, workers,
                   initializers, rangeLoop>>

\* whether the task of chain entry i calls a Loader
loaderExists(it, i) ==
    /\ it.FullyDecoratedMatchingPaths[i].DataFuncs # Nil
    /\ Deref(it.FullyDecoratedMatchingPaths[i].DataFuncs).Loader

RunLoaderSharedSlot(i, outcome) ==
    /\ pc = "loaders"
    /\ i \in pending
    /\ LET result == IF loaderExists(item, i) THEN outcome ELSE NoOutcome
           slot == Len(loadersData)
       IN  /\ loadersData' = [loadersData EXCEPT ![slot] = result.data]
           /\ errors' = [errors EXCEPT ![slot] = result.err]
           /\ calls' = [calls EXCEPT
                          !.loaders[i] = IF loaderExists(item, i) THEN @ + 1 ELSE @,
                          !.returned[i] = result]
    /\ pending' = pending \ {i}
    /\ UNCHANGED <<instancePaths, gmpdCache, pc, req, realPath, cacheHit, matchingPaths,
                   item, actionData, reduced, out, served, headVars, probe, workers,
                   initializers, rangeLoop>>

RunLoaderCancelling(i, outcome) ==
    /\ pc = "loaders"
    /\ i \in pending
    /\ LET result == IF loaderExists(item, i) THEN outcome ELSE NoOutcome
       IN  /\ loadersData' = [loadersData EXCEPT ![i] = result.data]
           /\ errors' = [errors EXCEPT ![i] = result.err]
           /\ calls' = [calls EXCEPT
                          !.loaders[i] = IF loaderExists(item, i) THEN @ + 1 ELSE @,
                          !.returned[i] = result]
           /\ pending' = IF result.err # Nil THEN {} ELSE pending \ {i}
    /\ UNCHANGED <<instancePaths, gmpdCache, pc, req, realPath, cacheHit, matchingPaths,
                   item, actionData, reduced, out, served, headVars, probe, workers,
                   initializers, rangeLoop>>

\* one loader task: it writes its own slot and is done
RunLoader(i, outcome) ==
    /\ pc = "loaders"
    /\ i \in pending
    /\ LET result == IF loaderExists(item, i) THEN outcome ELSE NoOutcome
       IN  /\ loadersData' = [loadersData EXCEPT ![i] = result.data]
           /\ errors' = [errors EXCEPT ![i] = result.err]
           /\ calls' = [calls EXCEPT
                          !.loaders[i] = IF loaderExists(item, i) THEN @ + 1 ELSE @,
                          !.returned[i] = result]
    /\ pending' = pending \ {i}
    /\ UNCHANGED <<instancePaths, gmpdCache, pc, req, realPath, cacheHit, matchingPaths,
                   item, actionData, reduced, out, served, headVars, probe, workers,
                   initializers, rangeLoop>>

\* h.DefaultHeadBlocks
DefaultHeadBlocks == <<titleBlock(<<"t", "1">>), descriptionBlock(<<"1">>)>>

\* Reduce cutting the chain of the cached item where it cuts the chain of the
\* payload
ReduceTruncatingCache ==
    /\ pc = "loaders"
    /\ pending = {}
    /\ \E red \in {reduceErrors(loadersData, errors, actionData.err)} :
       \E built \in {buildActivePathData(item, loadersData, red, actionData)} :
           /\ reduced' = red
           /\ out' = built.data
           /\ pc' = IF built.panic # "" THEN "panicked" ELSE "returned"
           /\ headBlocks' = IF built.panic # "" THEN headBlocks ELSE DefaultHeadBlocks
           /\ gmpdCache' =
                 IF red.thereAreErrors /\ red.outermostErrorIndex >= 0
                    /\ realPath \in DOMAIN gmpdCache
                 THEN [gmpdCache EXCEPT
                          ![realPath].value.FullyDecoratedMatchingPaths =
                              SubSeq(@, 1, red.outermostErrorIndex + 1)]
                 ELSE gmpdCache
    /\ UNCHANGED <<instancePaths, req, realPath, cacheHit, matchingPaths,
                   item, actionData, loadersData, errors, pending, served,
                   calls, headIndex, deduped, routeData, probe, workers,
                   initializers, rangeLoop>>

\* after wg.Wait(): the error reduction and the returned ActivePathData; then
\* GetRouteData enters getExportedHeadBlocks, which copies the default blocks
Reduce ==
    /\ pc = "loaders"
    /\ pending = {}
    /\ \E red \in {reduceErrors(loadersData, errors, actionData.err)} :
       \E built \in {buildActivePathData(item, loadersData, red, actionData)} :
           /\ reduced' = red
           /\ out' = built.data
           /\ pc' = IF built.panic # "" THEN "panicked" ELSE "returned"
           /\ headBlocks' = IF built.panic # "" THEN headBlocks ELSE DefaultHeadBlocks
    /\ UNCHANGED <<instancePaths, gmpdCache, req, realPath, cacheHit, matchingPaths,
                   item, actionData, loadersData, errors, pending, served,
                   calls, headIndex, deduped, routeData, probe, workers,
          initializers, rangeLoop>>

\* what the Head callback of chain position i (0-based) may return: its head
\* blocks, an error, or (nil, nil)
HeadOutcomes(i) ==
    { [blocks |-> Ptr(<<titleBlock(<<"t", "2">>),
                        otherBlock(sMeta, IF i % 2 = 0 THEN attrsAB ELSE attrsAmp)>>),
       err |-> Nil],
      [blocks |-> Nil, err |-> Ptr("head err")],
      [blocks |-> Nil, err |-> Nil] }

HeadStepContinuing(outcome) ==
    /\ pc = "returned"
    /\ headIndex < Len(Deref(out).ActiveHeads)
    /\ headIndex' = headIndex + 1
    /\ IF Deref(out).ActiveHeads[headIndex + 1] = Nil
       THEN UNCHANGED <<pc, calls, headBlocks, routeData>>
       ELSE /\ calls' = [calls EXCEPT !.heads = Append(@, [index |-> headIndex,
                                                            outcome |-> outcome])]
            /\ IF outcome.err # Nil
               THEN UNCHANGED <<pc, headBlocks, routeData>>
               ELSE IF outcome.blocks = Nil
               THEN /\ pc' = "panicked"
                    /\ UNCHANGED <<headBlocks, routeData>>
               ELSE /\ headBlocks' = headBlocks \o Deref(outcome.blocks)
                    /\ UNCHANGED <<pc, routeData>>
    /\ UNCHANGED <<instancePaths, gmpdCache, req, realPath, cacheHit, matchingPaths,
                   item, actionData, loadersData, errors, pending, reduced, out, served,
                   deduped, probe, workers, initializers, rangeLoop>>

\* one iteration of the loop of getExportedHeadBlocks: a nil head is skipped,
\* a Head callback is called and its blocks appended; its error ends
\* GetRouteData, and (nil, nil) is a nil pointer dereference
HeadStep(outcome) ==
    /\ pc = "returned"
    /\ headIndex < Len(Deref(out).ActiveHeads)
    /\ headIndex' = headIndex + 1
    /\ IF Deref(out).ActiveHeads[headIndex + 1] = Nil
       THEN UNCHANGED <<pc, calls, headBlocks, routeData>>
       ELSE /\ calls' = [calls EXCEPT !.heads = Append(@, [index |-> headIndex,
                                                            outcome |-> outcome])]
            /\ IF outcome.err # Nil
               THEN /\ routeData' = [data |-> Nil, err |-> outcome.err]
                    /\ pc' = "done"
                    /\ UNCHANGED headBlocks
               ELSE IF outcome.blocks = Nil
               THEN /\ pc' = "panicked"
                    /\ UNCHANGED <<headBlocks, routeData>>
               ELSE /\ headBlocks' = headBlocks \o Deref(outcome.blocks)
                    /\ UNCHANGED <<pc, routeData>>
    /\ UNCHANGED <<instancePaths, gmpdCache, req, realPath, cacheHit, matchingPaths,
                   item, actionData, loadersData, errors, pending, reduced, out, served,
                   deduped, probe, workers, initializers, rangeLoop>>

\* the end of getExportedHeadBlocks and of GetRouteData: dedupe, sort, and
\* the GetRouteDataOutput
FinishRouteData ==
    /\ pc = "returned"
    /\ headIndex = Len(Deref(out).ActiveHeads)
    /\ \E blocks \in {dedupeHeadBlocks(headBlocks)} :
       \E sorted \in {sortHeadBlocks(blocks)} :
           /\ deduped' = Ptr(blocks)
           /\ routeData' =
                 [data |-> Ptr([Title |-> sorted.title,
                                MetaHeadBlocks |-> sorted.metaHeadBlocks,
                                RestHeadBlocks |-> sorted.restHeadBlocks,
                                LoadersData |-> Deref(out).LoadersData,
                                ImportURLs |-> Deref(out).ImportURLs,
                                OutermostErrorBoundaryIndex |->
                                    Deref(out).OutermostErrorBoundaryIndex,
                                SplatSegments |-> Deref(out).SplatSegments,
                                Params |-> Deref(out).Params,
                                ActionData |-> Deref(out).ActionData]),
                  err |-> Nil]
    /\ pc' = "done"
    /\ UNCHANGED <<instancePaths, gmpdCache, req, realPath, cacheHit, matchingPaths,
                   item, actionData, loadersData, errors, pending, reduced, out, served,
                   calls, headIndex, headBlocks, probe, workers, initializers, rangeLoop>>

\* the request is over (answered, or its panic recovered by the server)
Respond ==
    /\ pc \in {"done", "panicked"}
    /\ served < MaxRequests
    /\ pc' = "idle"
    /\ req' = NoRequest
    /\ realPath' = <<>>
    /\ cacheHit' = FALSE
    /\ matchingPaths' = <<>>
    /\ item' = NoItem
    /\ actionData' = NoOutcome
    /\ loadersData' = <<>>
    /\ errors' = <<>>
    /\ pending' = {}
    /\ reduced' = NoReduction
    /\ out' = Nil
    /\ calls' = NoCalls
    /\ headIndex' = 0
    /\ headBlocks' = <<>>
    /\ deduped' = Nil
    /\ routeData' = NoRouteData
    /\ UNCHANGED <<instancePaths, gmpdCache, served, probe, workers, initializers, rangeLoop>>

\* One request is followed through the whole of GetRouteData; the requests
\* served concurrently with it are followed at instancePaths and gmpdCache,
\* the structures they share with it, and Initialize may be called at any
\* moment, its statements interleaved with theirs and with those of another
\* call.
Next ==
    \/ \E h \in Hwys : CallInitialize(h)
    \/ \E k \in DOMAIN initializers.running : RangeInstancePaths(k)
    \/ \E k \in DOMAIN initializers.running : AddDataFuncs(k)
    \/ \E path \in PipelinePaths, method \in Methods : StartRequest(path, method)
    \/ ReadPath
    \/ FillCache
    \/ \E path \in ConcurrentPaths : ConcurrentGet(path)
    \/ \E w \in DOMAIN workers : ConcurrentReadPath(w)
    \/ \E w \in DOMAIN workers : ConcurrentSet(w)
    \/ \E outcome \in Outcomes : RunAction(outcome)
    \/ \E i \in pending, outcome \in Outcomes : RunLoader(i, outcome)
    \/ Reduce
    \/ \E outcome \in HeadOutcomes(headIndex) : HeadStep(outcome)
    \/ FinishRouteData
    \/ Respond

Spec == Init /\ [][Next]_vars

\* ------------------- requests on the route table Initialize has completed

\* the route table when Hwy.Initialize has returned: the base paths with
\* their data functions attached
ServingTables ==
    {Initialize(h.pages, h.DataFuncsMap) :
        h \in PipelineHwys \cup {[pages |-> TigerBasic, DataFuncsMap |-> AllFuncs]}}

\* the program after one call of Hwy.Initialize has returned and before the
\* first request: the route table is complete, the cache empty
InitServing ==
    /\ instancePaths \in {Ptr(table) : table \in ServingTables}
    /\ gmpdCache = EmptyMap
    /\ served = 0
    /\ workers = NoWorkers
    /\ initializers = [NoInitializers EXCEPT !.calls = 1]
    /\ rangeLoop = NoLoop
    /\ Idle

\* the requests of Next, of every accepted method and of GET, with no further
\* call of Initialize
NextServing ==
    \/ \E path \in PipelinePaths, method \in acceptedMethods \cup {"GET"} :
          StartRequest(path, method)
    \/ ReadPath
    \/ FillCache
    \/ \E path \in ConcurrentPaths : ConcurrentGet(path)
    \/ \E w \in DOMAIN workers : ConcurrentReadPath(w)
    \/ \E w \in DOMAIN workers : ConcurrentSet(w)
    \/ \E outcome \in Outcomes : RunAction(outcome)
    \/ \E i \in pending, outcome \in Outcomes : RunLoader(i, outcome)
    \/ Reduce
    \/ \E outcome \in HeadOutcomes(headIndex) : HeadStep(outcome)
    \/ FinishRouteData
    \/ Respond

SpecServing == InitServing /\ [][NextServing]_vars

\* ---------------------------------------------- the resolver on its own

InitResolver ==
    /\ instancePaths \in {Ptr(Initialize(t, NoFuncs)) : t \in Tables}
    /\ gmpdCache = EmptyMap
    /\ served = 0
    /\ workers = NoWorkers
    /\ initializers = NoInitializers
    /\ rangeLoop = NoLoop
    /\ Idle

\* one request resolved on an empty cache, by the steps of getMatchingPathData:
\* the path is normalized and gmpdCache.Get misses, the route table is read an
\* element at a time and the item built, and gmpdCache.Set stores it.  The
\* requests served alongside are followed in Spec, SpecServing and SpecCache.
NextResolver ==
    \/ pc = "idle" /\ \E path \in Paths : StartRequest(path, "GET")
    \/ ReadPath
    \/ FillCache

SpecResolver == InitResolver /\ [][NextResolver]_vars

\* ------------------------------------------ dedupeHeadBlocks on its own

MaxBlocks == 3

InitHead ==
    /\ instancePaths = Nil
    /\ gmpdCache = EmptyMap
    /\ served = 0
    /\ pc = "idle"
    /\ req = NoRequest
    /\ realPath = <<>>
    /\ cacheHit = FALSE
    /\ matchingPaths = <<>>
    /\ item = NoItem
    /\ actionData = NoOutcome
    /\ loadersData = <<>>
    /\ errors = <<>>
    /\ pending = {}
    /\ reduced = NoReduction
    /\ out = Nil
    /\ calls = NoCalls
    /\ headIndex = 0
    /\ headBlocks \in {<<>>} \cup SeqsUpTo(HeadBlockUniverse, MaxBlocks)
    /\ deduped = Nil
    /\ routeData = NoRouteData
    /\ probe = NoProbe
    /\ workers = NoWorkers
    /\ initializers = NoInitializers
    /\ rangeLoop = NoLoop

\* dedupeHeadBlocks applied to a list of head blocks
Dedupe ==
    /\ pc = "idle"
    /\ deduped' = Ptr(dedupeHeadBlocks(headBlocks))
    /\ pc' = "deduped"
    /\ UNCHANGED <<instancePaths, gmpdCache, req, realPath, cacheHit, matchingPaths,
                   item, actionData, loadersData, errors, pending, reduced, out, served,
                   calls, headIndex, headBlocks, routeData, probe, workers,
          initializers, rangeLoop>>

\* sortHeadBlocks applied to the deduplicated list, as GetRouteData does
Sort ==
    /\ pc = "deduped"
    /\ \E sorted \in {sortHeadBlocks(Deref(deduped))} :
          routeData' = [data |-> Ptr([Title |-> sorted.title,
                                      MetaHeadBlocks |-> sorted.metaHeadBlocks,
                                      RestHeadBlocks |-> sorted.restHeadBlocks]),
                        err |-> Nil]
    /\ pc' = "sorted"
    /\ UNCHANGED <<instancePaths, gmpdCache, req, realPath, cacheHit, matchingPaths,
                   item, actionData, loadersData, errors, pending, reduced, out, served,
                   calls, headIndex, headBlocks, deduped, probe, workers, initializers, rangeLoop>>

NextHead == Dedupe \/ Sort

SpecHead == InitHead /\ [][NextHead]_vars

\* ------------------------------------------------- matcher on its own

\* the patterns of the pages
Patterns == {walkPages(page).Pattern : page \in AllPages}

InitMatcher ==
    /\ instancePaths = Nil
    /\ gmpdCache = EmptyMap
    /\ served = 0
    /\ pc = "idle"
    /\ req = NoRequest
    /\ realPath = <<>>
    /\ cacheHit = FALSE
    /\ matchingPaths = <<>>
    /\ item = NoItem
    /\ actionData = NoOutcome
    /\ loadersData = <<>>
    /\ errors = <<>>
    /\ pending = {}
    /\ reduced = NoReduction
    /\ out = Nil
    /\ calls = NoCalls
    /\ headIndex = 0
    /\ headBlocks = <<>>
    /\ deduped = Nil
    /\ routeData = NoRouteData
    /\ probe \in {[pattern |-> pattern, path |-> path, out |-> NoMatch] :
                     pattern \in Patterns, path \in Paths}
    /\ workers = NoWorkers
    /\ initializers = NoInitializers
    /\ rangeLoop = NoLoop

\* one call matcher(pattern, path)
Match ==
    /\ pc = "idle"
    /\ probe' = [probe EXCEPT !.out = matcher(probe.pattern, probe.path)]
    /\ pc' = "matched"
    /\ UNCHANGED <<instancePaths, gmpdCache, req, realPath, cacheHit, matchingPaths,
                   item, actionData, loadersData, errors, pending, reduced, out, served,
                   calls, headVars, workers, initializers, rangeLoop>>

NextMatcher == Match

SpecMatcher == InitMatcher /\ [][NextMatcher]_vars

\* ------------------------------------- concurrent requests at the cache

MaxWorkers == 3

\* the route tables and request paths of the concurrent requests
CacheTables ==
    { Initialize(TigerBasic, NoFuncs), Initialize(TigerDeep, NoFuncs),
      Initialize(<<pTiger>>, NoFuncs) }

CachePaths == { <<"", "tiger", "123">>, <<"", "tiger", "123", "">>, <<"", "123", "456">> }

InitCache ==
    /\ instancePaths \in {Ptr(table) : table \in CacheTables}
    /\ gmpdCache = EmptyMap
    /\ served = 0
    /\ workers \in [1..MaxWorkers ->
                      {[pc |-> "start", path |-> path, key |-> <<>>, hit |-> FALSE,
                        item |-> NoItem] : path \in CachePaths}]
    /\ initializers = NoInitializers
    /\ rangeLoop = NoLoop
    /\ Idle

NextCache ==
    \/ \E w \in DOMAIN workers : CacheLookup(w)
    \/ \E w \in DOMAIN workers : CacheInsert(w)

SpecCache == InitCache /\ [][NextCache]_vars

\* ------------------------------------------------- what the claims speak of

\* the route table is the one built from these pages
TableIs(pages) == Deref(instancePaths) = Initialize(pages, NoFuncs)

\* the resolved chain, as the pages of its entries
ChainPages == [i \in 1..Len(matchingPaths) |-> matchingPaths[i].OutPath]

\* the resolved chain, as the path types of its entries
ChainTypes == [i \in 1..Len(matchingPaths) |-> matchingPaths[i].PathType]

\* the splat segments of the item, none for a nil pointer
SplatOf(it) == IF it.SplatSegments = Nil THEN <<>> ELSE Deref(it.SplatSegments)

\* the params of the item, none for a nil pointer
ParamsOf(it) == IF it.Params = Nil THEN EmptyMap ELSE Deref(it.Params)

\* the request has taken the miss branch to its end: the chain is resolved,
\* the item built and stored
Resolved == pc = "action" /\ ~cacheHit

\* C1: with exactly /tiger, /tiger/_index, /tiger/$tiger_id and
\* /tiger/$tiger_id/_index registered, every request /tiger/v with v one
\* non-empty segment resolves to the chain [/tiger, /tiger/$tiger_id,
\* /tiger/$tiger_id/_index] of types static-layout, dynamic-layout, index, with
\* params {tiger_id: v} and no splat segments.
C1_TigerIdChain ==
    (Resolved /\ TableIs(TigerBasic)
       /\ Len(req.path) = 3 /\ req.path[2] = "tiger" /\ req.path[3] # "")
    => /\ ChainPages = <<pTiger, pTigerId, pTigerIdIndex>>
       /\ ChainTypes = <<PathTypeStaticLayout, PathTypeDynamicLayout, PathTypeIndex>>
       /\ ParamsOf(item) = [tiger_id |-> req.path[3]]
       /\ SplatOf(item) = <<>>

\* C2: with /tiger/$tiger_id/$ registered as well, every request
\* /tiger/v/s1/.../sn (n >= 1, all segments non-empty) resolves to the chain
\* [/tiger, /tiger/$tiger_id, /tiger/$tiger_id/$] with params {tiger_id: v} and
\* splat segments <<s1, ..., sn>>.
C2_TigerSplatChain ==
    (Resolved /\ TableIs(TigerSplat)
       /\ Len(req.path) >= 4 /\ req.path[2] = "tiger"
       /\ \A i \in 3..Len(req.path) : req.path[i] # "")
    => /\ ChainPages = <<pTiger, pTigerId, pTigerIdSplat>>
       /\ ChainTypes = <<PathTypeStaticLayout, PathTypeDynamicLayout,
                         PathTypeNonUltimateSplat>>
       /\ ParamsOf(item) = [tiger_id |-> req.path[3]]
       /\ SplatOf(item) = SubSeq(req.path, 4, Len(req.path))

\* the route is the ultimate catch-all
IsCatchRoute(route) == route.Pattern = <<"", SplatSegment>>

\* some route other than the ultimate catch-all matches the path, by matcher
NonCatchMatches(path) ==
    \E i \in 1..Len(Deref(instancePaths)) :
        ~IsCatchRoute(Deref(instancePaths)[i]) /\ matcher(Deref(instancePaths)[i].Pattern, path).matches

CatchRegistered == \E i \in 1..Len(Deref(instancePaths)) : IsCatchRoute(Deref(instancePaths)[i])

\* matching as the specification words it, on the non-empty segments of the
\* pattern and of the path
SegmentsMatch(patternSegments, pathSegments) ==
    \A i \in 1..Len(patternSegments) :
        IF patternSegments[i] = SplatSegment /\ i = Len(patternSegments) THEN TRUE
        ELSE IF HasColonPrefix(patternSegments[i]) THEN i <= Len(pathSegments)
        ELSE i <= Len(pathSegments) /\ pathSegments[i] = patternSegments[i]

\* some pattern other than the ultimate catch-all matches the path, by the
\* matching the specification words
NonCatchPatternMatches(path) ==
    \E i \in 1..Len(Deref(instancePaths)) :
        /\ ~IsCatchRoute(Deref(instancePaths)[i])
        /\ SegmentsMatch(NonEmpty(Deref(instancePaths)[i].Pattern), NonEmpty(path))

\* C3: when no pattern other than the ultimate catch-all matches the request
\* path, the chain is exactly [ultimate-catch] with all non-empty path segments
\* as splat segments if the catch-all is registered, and empty if it is not.
\* A pattern matches as C20 states it: segment by segment on the non-empty
\* segments, a dynamic segment by one existing path segment.
C3_CatchFallback ==
    (Resolved /\ ~NonCatchPatternMatches(realPath))
    => IF CatchRegistered
       THEN /\ ChainTypes = <<PathTypeUltimateCatch>>
            /\ ChainPages = <<pCatch>>
            /\ SplatOf(item) = NonEmpty(realPath)
       ELSE matchingPaths = <<>>

RootIndexRegistered ==
    \E i \in 1..Len(Deref(instancePaths)) : Deref(instancePaths)[i].SrcPath = pRootIndex

\* C4: the request path / resolves to the one-entry chain [/_index]; the
\* ultimate catch-all is not in the chain, and params and splat segments are
\* empty.
C4_RootIndex ==
    (Resolved /\ req.path = <<"", "">> /\ RootIndexRegistered)
    => /\ ChainPages = <<pRootIndex>>
       /\ ChainTypes = <<PathTypeIndex>>
       /\ ParamsOf(item) = EmptyMap
       /\ SplatOf(item) = <<>>

\* the positions of the chain that hold the static route whose pattern is the
\* request path
StaticSelf ==
    {i \in 1..Len(matchingPaths) :
        /\ matchingPaths[i].PathType = PathTypeStaticLayout
        /\ <<"">> \o matchingPaths[i].Segments = realPath}

StaticSelfRegistered ==
    \E i \in 1..Len(Deref(instancePaths)) :
        /\ Deref(instancePaths)[i].PathType = PathTypeStaticLayout
        /\ Deref(instancePaths)[i].Pattern = realPath

MatchingLayout(entry) ==
    /\ entry.PathType \in {PathTypeStaticLayout, PathTypeDynamicLayout}
    /\ Len(entry.Segments) <= Len(realPath) - 1
    /\ matcher(<<"">> \o entry.Segments, realPath).matches

\* the entry is the index of a layout that matches the whole request path
IndexUnder(entry) ==
    /\ entry.PathType = PathTypeIndex
    /\ Len(entry.Segments) = Len(realPath)
    /\ matcher(<<"">> \o SubSeq(entry.Segments, 1, Len(realPath) - 1), realPath).matches

C6_CacheHitIsMiss ==
    [][(pc = "idle" /\ pc' = "action" /\ cacheHit')
       => item' = resolveItem(Deref(instancePaths), normalizePath(req'.path)).item]_vars

\* a hit on /tiger/123/ after an earlier request
C6_Witness ==
    /\ pc = "action" /\ cacheHit
    /\ served = 2
    /\ req.path = <<"", "tiger", "123", "">>
    /\ Len(item.FullyDecoratedMatchingPaths) = 2
    /\ item.Params = Ptr([tiger_id |-> "123"])
    /\ item = resolveItem(Deref(instancePaths), <<"", "tiger", "123">>).item

\* the error reduction of the current request has run
Reduced == pc \in {"returned", "panicked"} /\ reduced # NoReduction

\* the 0-based chain positions whose loader returned an error
LoaderErrorPositions == {i \in 0..(Len(errors) - 1) : errors[i + 1] # Nil}

Min(S) == CHOOSE x \in S : \A y \in S : x <= y
Max(S) == CHOOSE x \in S : \A y \in S : x >= y

\* the positions at or above position k that expose an error boundary
BoundariesAtOrAbove(k) == {i \in 0..k : loadersData[i + 1] # Nil}

\* C7: when loaders fail, the outermost error index is the smallest failing
\* position k, and the boundary anchor is the nearest position at or above k
\* that exposes an error boundary, or -1 when there is none.
C7_OutermostAndAnchor ==
    (Reduced /\ LoaderErrorPositions # {})
    => /\ reduced.outermostErrorIndex = Min(LoaderErrorPositions)
       /\ reduced.closestParentErrorBoundaryIndex =
             IF BoundariesAtOrAbove(Min(LoaderErrorPositions)) = {} THEN -1
             ELSE Max(BoundariesAtOrAbove(Min(LoaderErrorPositions)))

\* C8: when a loader errors with outermost error index k, a payload is still
\* produced, and its chain, head list, loader-data list and import list are
\* the entries at positions 0..k.
C8_TruncatedPayload ==
    (Reduced /\ LoaderErrorPositions # {})
    => /\ pc = "returned" /\ out # Nil
       /\ Deref(out).MatchingPaths =
             SubSeq(item.FullyDecoratedMatchingPaths, 1, Min(LoaderErrorPositions) + 1)
       /\ Deref(out).ActiveHeads =
             SubSeq(activeHeadsOf(item.FullyDecoratedMatchingPaths), 1,
                    Min(LoaderErrorPositions) + 1)
       /\ Deref(out).LoadersData = SubSeq(loadersData, 1, Min(LoaderErrorPositions) + 1)
       /\ Deref(out).ImportURLs = SubSeq(item.ImportURLs, 1, Min(LoaderErrorPositions) + 1)

\* C9: a request with a method that is not accepted, whose deepest chain entry
\* has an Action, still has every loader run, and when no loader errors the
\* payload carries the full chain, loader data and import paths.
C9_MethodNotAllowedConfined ==
    (Reduced /\ req.method \notin acceptedMethods /\ actionExists(item)
       /\ LoaderErrorPositions = {})
    => /\ pc = "returned" /\ out # Nil
       /\ Deref(out).MatchingPaths = item.FullyDecoratedMatchingPaths
       /\ Deref(out).LoadersData = loadersData
       /\ Deref(out).ImportURLs = item.ImportURLs

\* C10: an error returned by the Action is keyed at the deepest chain
\* position: the outermost error index is the chain length minus 1 when no
\* loader errors, and the position of the first failing loader otherwise.
C10_ActionErrorAtDeepest ==
    (Reduced /\ req.method \in acceptedMethods /\ actionExists(item)
       /\ actionData.err # Nil)
    => reduced.outermostErrorIndex =
          IF LoaderErrorPositions = {} THEN Len(item.FullyDecoratedMatchingPaths) - 1
          ELSE Min(LoaderErrorPositions)

\* the length of the chain the request works with
ChainLength == Len(item.FullyDecoratedMatchingPaths)

\* the deepest chain entry has an Action
DeepestHasAction ==
    /\ ChainLength > 0
    /\ item.FullyDecoratedMatchingPaths[ChainLength].DataFuncs # Nil
    /\ Deref(item.FullyDecoratedMatchingPaths[ChainLength].DataFuncs).Action

\* C11: per request the Action of the deepest chain entry is invoked exactly
\* once when the method is POST, PUT, PATCH or DELETE and that entry has an
\* Action; it is never invoked for another method, and no Action of a
\* non-deepest entry is ever invoked.
C11_ActionOnce ==
    /\ calls.action \in {<<>>, <<ChainLength - 1>>}
    /\ req.method \notin {"POST", "PUT", "PATCH", "DELETE"} => calls.action = <<>>
    /\ pc \in {"loaders", "returned", "done"}
       => (calls.action # <<>>
             <=> (req.method \in {"POST", "PUT", "PATCH", "DELETE"} /\ DeepestHasAction))

C11_Witness ==
    /\ pc = "done" /\ req.method = "POST"
    /\ ChainLength = 2
    /\ \A i \in 1..2 : item.FullyDecoratedMatchingPaths[i].DataFuncs # Nil
                       /\ Deref(item.FullyDecoratedMatchingPaths[i].DataFuncs).Action
    /\ calls.action = <<1>>

\* chain entry i (1-based) has a Loader
HasLoader(i) ==
    /\ item.FullyDecoratedMatchingPaths[i].DataFuncs # Nil
    /\ Deref(item.FullyDecoratedMatchingPaths[i].DataFuncs).Loader

\* C12: in every interleaving of the loader tasks each entry's Loader is
\* invoked exactly once, a task writes only its own slot, and once task i is
\* done slot i holds the (data, error) its Loader returned, (nil, nil) when the
\* entry has no Loader; the slot of a task that has not run is untouched.
C12_LoaderSlots ==
    pc \in {"loaders", "returned", "done", "panicked"}
    => /\ Len(loadersData) = ChainLength /\ Len(errors) = ChainLength
       /\ \A i \in 1..ChainLength :
             IF i \in pending
             THEN calls.loaders[i] = 0 /\ loadersData[i] = Nil /\ errors[i] = Nil
             ELSE /\ calls.loaders[i] = IF HasLoader(i) THEN 1 ELSE 0
                  /\ loadersData[i] = calls.returned[i].data
                  /\ errors[i] = calls.returned[i].err
                  /\ ~HasLoader(i) => calls.returned[i] = NoOutcome

C12_Witness ==
    /\ pc = "loaders" /\ pending = {1}
    /\ ChainLength = 2
    /\ calls.loaders = <<0, 1>>
    /\ loadersData = <<Nil, Ptr("data")>>
    /\ errors = <<Nil, Ptr("err")>>

\* C13: error reduction and head assembly start only after every loader task
\* has completed; a failing loader cancels no sibling, so every entry with a
\* Loader has had it run and recorded by then.
C13_Barrier ==
    (pc \in {"returned", "done"} \/ reduced # NoReduction \/ headIndex > 0
       \/ calls.heads # <<>> \/ routeData # NoRouteData)
    => /\ pending = {}
       /\ \A i \in 1..ChainLength :
             /\ calls.loaders[i] = IF HasLoader(i) THEN 1 ELSE 0
             /\ loadersData[i] = calls.returned[i].data
             /\ errors[i] = calls.returned[i].err

C13_Witness ==
    /\ reduced.thereAreErrors
    /\ ChainLength = 2
    /\ errors = <<Ptr("err"), Nil>>
    /\ calls.loaders = <<1, 1>>
    /\ loadersData = <<Ptr("data"), Ptr("data")>>

\* the blocks the Head callbacks invoked so far have returned, in call order
RECURSIVE ReturnedBlocks(_)
ReturnedBlocks(headCalls) ==
    IF headCalls = <<>> THEN <<>>
    ELSE (IF Head(headCalls).outcome.err = Nil /\ Head(headCalls).outcome.blocks # Nil
          THEN Deref(Head(headCalls).outcome.blocks) ELSE <<>>)
         \o ReturnedBlocks(Tail(headCalls))

\* C14: Head callbacks are invoked root to leaf, each entry's at most once,
\* and their blocks follow the default head blocks; when a Head callback
\* returns an error it is the last one invoked, and GetRouteData returns that
\* error and no payload.
C14_HeadError ==
    /\ \A k \in 1..Len(calls.heads) :
          /\ Deref(out).ActiveHeads[calls.heads[k].index + 1] # Nil
          /\ calls.heads[k].index < headIndex
          /\ k > 1 => calls.heads[k - 1].index < calls.heads[k].index
          /\ calls.heads[k].outcome.err # Nil
             => /\ k = Len(calls.heads)
                /\ pc = "done"
                /\ routeData = [data |-> Nil, err |-> calls.heads[k].outcome.err]
    /\ pc \in {"returned", "done"}
       => /\ headBlocks = DefaultHeadBlocks \o ReturnedBlocks(calls.heads)
          /\ \A i \in 0..(headIndex - 1) :
                Deref(out).ActiveHeads[i + 1] # Nil
                => \E k \in 1..Len(calls.heads) : calls.heads[k].index = i

C14_Witness ==
    /\ pc = "done"
    /\ routeData.err = Ptr("head err") /\ routeData.data = Nil
    /\ Len(calls.heads) = 1
    /\ Len(Deref(out).ActiveHeads) = 2
    /\ Deref(out).ActiveHeads[2] # Nil

Deduped == pc = "deduped"

\* the indices of the title blocks, and of the meta description blocks, of a list
TitleIndices(blocks) == {i \in 1..Len(blocks) : Len(blocks[i].Title) > 0}

DescriptionIndices(blocks) ==
    {i \in 1..Len(blocks) :
        /\ Len(blocks[i].Title) = 0
        /\ blocks[i].Tag = sMeta
        /\ sName \in DOMAIN blocks[i].Attributes
        /\ blocks[i].Attributes[sName] = sDescription}

\* where the kind of an output block first appeared in the input
FirstAppearance(block) ==
    IF Len(block.Title) > 0 THEN Min(TitleIndices(headBlocks))
    ELSE IF block \in {headBlocks[i] : i \in DescriptionIndices(headBlocks)}
    THEN Min(DescriptionIndices(headBlocks))
    ELSE Min({i \in 1..Len(headBlocks) : headBlocks[i] = block})

\* the singleton of a kind: absent from the output when the input has no
\* block of the kind; otherwise exactly one, holding the last input block of
\* the kind, placed among the other output blocks as the first one was
SingletonSlot(inputIndices, outputIndices) ==
    IF inputIndices = {} THEN outputIndices = {}
    ELSE /\ Cardinality(outputIndices) = 1
         /\ \A p \in outputIndices :
               /\ Deref(deduped)[p] = headBlocks[Max(inputIndices)]
               /\ \A q \in 1..Len(Deref(deduped)) :
                     q # p => (q < p <=> FirstAppearance(Deref(deduped)[q])
                                            < Min(inputIndices))

\* C15: the deduplicated list holds at most one title block and at most one
\* meta description block; each sits where the first block of its kind
\* appeared and holds the content of the last block of its kind in the input.
C15_SingletonSlots ==
    Deduped
    => /\ SingletonSlot(TitleIndices(headBlocks), TitleIndices(Deref(deduped)))
       /\ SingletonSlot(DescriptionIndices(headBlocks),
                        DescriptionIndices(Deref(deduped)))

C15_Witness ==
    /\ Deduped
    /\ headBlocks = <<otherBlock(sMeta, attrsAB), titleBlock(<<"t", "1">>),
                      titleBlock(<<"t", "2">>)>>
    /\ Deref(deduped) = <<otherBlock(sMeta, attrsAB), titleBlock(<<"t", "2">>)>>

\* the blocks of a list that are neither titles nor meta descriptions
OtherBlocks(blocks) ==
    SelectSeq(blocks, LAMBDA b :
        /\ Len(b.Title) = 0
        /\ ~(b.Tag = sMeta /\ sName \in DOMAIN b.Attributes
             /\ b.Attributes[sName] = sDescription))

\* a list without the later occurrences of equal elements
RECURSIVE DistinctInOrder(_)
DistinctInOrder(seq) ==
    IF seq = <<>> THEN <<>>
    ELSE LET front == SubSeq(seq, 1, Len(seq) - 1)
         IN  IF \E i \in 1..Len(front) : front[i] = seq[Len(seq)]
             THEN DistinctInOrder(front)
             ELSE Append(DistinctInOrder(front), seq[Len(seq)])

\* C16: among the blocks other than title and meta description, two collapse
\* exactly when they have the same tag and the same attribute pairs: the first
\* occurrence is kept, later duplicates are dropped, different blocks are
\* never collapsed, and the kept blocks retain their input order.
C16_IdentityDedupe ==
    Deduped => OtherBlocks(Deref(deduped)) = DistinctInOrder(OtherBlocks(headBlocks))

\* the params bound by entry i of the chain
EntryParams(i) ==
    IF matchingPaths[i].Params = Nil THEN EmptyMap ELSE Deref(matchingPaths[i].Params)

\* the params of all chain entries, a deeper entry overwriting a shallower one
MergedParams ==
    LET binders(k) == {i \in 1..Len(matchingPaths) : k \in DOMAIN EntryParams(i)}
    IN  [k \in UNION {DOMAIN EntryParams(i) : i \in 1..Len(matchingPaths)} |->
            EntryParams(Max(binders(k)))[k]]

\* C17: the params of a resolved chain are the merge of the params bound by
\* every entry of the chain, a deeper entry overwriting a shallower one: every
\* param bound by a dynamic segment of any chain entry is in the resolved params.
C17_ParamsMerged == Resolved => ParamsOf(item) = MergedParams

\* C18: the resolved splat segments are non-empty only if the deepest entry of
\* the chain is a non-ultimate splat or the ultimate catch-all; a chain ending
\* in a static layout, a dynamic layout or an index, and an empty chain, has
\* empty splat segments.
C18_SplatOnlyUnderSplat ==
    (Resolved /\ SplatOf(item) # <<>>)
    => /\ matchingPaths # <<>>
       /\ Last(ChainTypes) \in {PathTypeNonUltimateSplat, PathTypeUltimateCatch}

\* C19: the entries of the resolved chain have strictly increasing declared
\* segment count from root to leaf, also after the fallback splat has been
\* substituted for the deepest entry.
C19_StrictlyDeeper ==
    Resolved
    => \A i \in 1..Len(matchingPaths) : \A j \in (i + 1)..Len(matchingPaths) :
          Len(matchingPaths[i].Segments) < Len(matchingPaths[j].Segments)

\* C20: matcher reports a match exactly when, after splitting pattern and path
\* on "/" and discarding empty segments, every pattern segment is matched in
\* order: a literal by an equal path segment, a dynamic segment by one existing
\* path segment, a trailing splat by zero or more remaining segments; a pattern
\* with more non-splat segments than the path has segments never matches.
C20_MatchesBySegments ==
    pc = "matched"
    => probe.out.matches = SegmentsMatch(NonEmpty(probe.pattern), NonEmpty(probe.path))

\* the score the specification gives a pattern: 3 per literal segment, 2 per
\* dynamic segment, 1 for a splat segment
WeightedScore(patternSegments) ==
    LET splats == {i \in 1..Len(patternSegments) : patternSegments[i] = SplatSegment}
        dynamics == {i \in 1..Len(patternSegments) :
                        HasColonPrefix(patternSegments[i])} \ splats
        literals == (1..Len(patternSegments)) \ (splats \cup dynamics)
    IN  3 * Cardinality(literals) + 2 * Cardinality(dynamics) + Cardinality(splats)

\* C21: for every pattern that matches a path, the score is 3 times the number
\* of literal pattern segments plus 2 times the number of dynamic segments plus
\* 1 for a splat segment, and realSegmentsLength is the number of non-empty
\* path segments.
C21_ScoreWeights ==
    (pc = "matched" /\ probe.out.matches)
    => /\ probe.out.score = WeightedScore(NonEmpty(probe.pattern))
       /\ probe.out.realSegmentsLength = Len(NonEmpty(probe.path))

\* the positions of the chain that hold the ultimate catch-all
CatchPositions ==
    {i \in 1..Len(matchingPaths) : matchingPaths[i].PathType = PathTypeUltimateCatch}

\* C22: if the resolved chain contains the ultimate catch-all then the chain
\* has exactly one entry: the catch-all never appears with another pattern.
C22_CatchAlone == (Resolved /\ CatchPositions # {}) => Len(matchingPaths) = 1

\* the chain collapsed to the catch-all although other routes match the path
C22_Witness ==
    /\ Resolved /\ CatchRegistered /\ NonCatchMatches(realPath)
    /\ Len(Deref(instancePaths)) > 3
    /\ CatchPositions = {1}
    /\ Len(matchingPaths) = 1

\* the declared segment count of a chain entry, minus one for an index
ConstructiveLength(entry) ==
    IF entry.PathType = PathTypeIndex THEN Len(entry.Segments) - 1
    ELSE Len(entry.Segments)

\* C23: in a resolved chain with at least one entry, the deepest entry is a
\* non-ultimate splat or the ultimate catch-all, or its constructive segment
\* count equals the number of real path segments: no path segment is left
\* unconsumed and the chain does not overreach the path, also when a single
\* candidate survives filtering.
C23_PathConsumed ==
    (Resolved /\ matchingPaths # <<>>)
    => \/ Last(ChainTypes) \in {PathTypeNonUltimateSplat, PathTypeUltimateCatch}
       \/ ConstructiveLength(Last(matchingPaths)) = Len(NonEmpty(realPath))

\* the candidates of the resolved path after the first filters, its definite
\* (static-layout) matches, and the contested groups by segment length
Candidates == filterPaths(getInitialMatchingPaths(Deref(instancePaths), realPath), realPath)

DefiniteMatches == SelectSeq(Candidates, LAMBDA x : x.PathType = PathTypeStaticLayout)

DepthGroups ==
    IF Len(Candidates) = 1 THEN <<>>
    ELSE getSortedGroupedBySegmentLength(
             Candidates, getHighestScoresBySegmentLength(DefiniteMatches))

\* the depth winners that are dynamic indices and were discarded
DiscardedDynamicIndices ==
    {w \in {groupWinner(DepthGroups[g]) : g \in 1..Len(DepthGroups)} :
        definiteMatchesShouldOverride(DefiniteMatches, w)}

\* C24: a depth winner that is an index nested directly under a dynamic
\* segment is discarded only when a static-layout match at the same depth has
\* a strictly higher score; it is then absent from the chain while the static
\* match stays. A static-layout match at a different depth never causes the
\* dynamic index to be discarded.
C24_DynamicIndexOverride ==
    Resolved
    => \A w \in DiscardedDynamicIndices :
          /\ w.OutPath \notin {ChainPages[i] : i \in 1..Len(ChainPages)}
          /\ \E k \in 1..Len(DefiniteMatches) :
                /\ Len(DefiniteMatches[k].Segments) = ConstructiveLength(w)
                /\ DefiniteMatches[k].Score > w.Score
                /\ DefiniteMatches[k].OutPath \in {ChainPages[i] : i \in 1..Len(ChainPages)}

\* C25: in a resolved chain, whenever a dynamic layout is immediately followed
\* by an index, the index's second-to-last declared segment is the dynamic
\* layout's final (parameter) segment; this also holds for the pair that
\* becomes adjacent after a dynamic layout between them has been removed.
C25_DynamicOwnsIndex ==
    Resolved
    => \A i \in 1..(Len(matchingPaths) - 1) :
          (/\ matchingPaths[i].PathType = PathTypeDynamicLayout
           /\ matchingPaths[i + 1].PathType = PathTypeIndex)
          => matchingPaths[i + 1].Segments[Len(matchingPaths[i + 1].Segments) - 1]
             = Last(matchingPaths[i].Segments)

\* the request path is p followed by "/", for a non-empty path p other than
\* the root, and the request has passed the cache
AfterSlash(p) ==
    /\ pc = "action"
    /\ req.path = p \o <<"">>
    /\ Len(p) >= 2 /\ p # <<"", "">>

\* the step in which a request for path reaches gmpdCache.Get
Looks(path) == pc = "idle" /\ pc' \in {"action", "resolving"} /\ req'.path = path

\* the step in which the request that missed has read the last route and
\* builds its item
Builds == pc = "resolving" /\ pc' = "storing"

\* the step in which the request that missed stores its item
Fills == pc = "storing" /\ pc' = "action"

\* a request for p followed by "/" does at the cache what a request for p
\* does: it reads the entry under the key of p and, on a miss, builds from
\* the routes it read the item a resolution of p yields and stores it under
\* that key
SameAsWithoutSlash(p) ==
    /\ Looks(p \o <<"">>) =>
          /\ realPath' = normalizePath(p)
          /\ cacheHit' = cacheGet(gmpdCache, normalizePath(p)).ok
          /\ cacheHit' => item' = cacheGet(gmpdCache, normalizePath(p)).value
    /\ (Builds /\ req.path = p \o <<"">>) =>
          item' = resolveItem(rangeStep(rangeLoop).loop.read, normalizePath(p)).item
    /\ (Fills /\ req.path = p \o <<"">>) =>
          cacheGet(gmpdCache', normalizePath(p)) = [ok |-> TRUE, value |-> item]

RootUnchanged == Looks(<<"", "">>) => realPath' = <<"", "">>

\* the non-empty, non-root paths p for which the step is one of a request
\* for p followed by "/"
SlashedPaths ==
    {p \in {SubSeq(req'.path, 1, Len(req'.path) - 1)} :
        /\ Len(p) >= 2 /\ p # <<"", "">>
        /\ req'.path = p \o <<"">>}

\* C26 as stated: the cache key is the request path with a trailing slash
\* stripped unless the path is the root: for every non-root path p, a request
\* for p followed by "/" resolves to the same chain, params and splat segments
\* as a request for p and uses the same cache entry; the root path is unchanged.
\* Stated for the non-empty p: the empty path followed by "/" is the root.
C26_TrailingSlash ==
    [][RootUnchanged /\ \A p \in SlashedPaths : SameAsWithoutSlash(p)]_vars

\* C26 amended: the same for every non-empty, non-root path p that does not
\* itself end in a slash; one trailing slash is stripped, not every one.
C26_OneTrailingSlash ==
    [][RootUnchanged /\ \A p \in SlashedPaths : Last(p) # "" => SameAsWithoutSlash(p)]_vars

C26_Witness ==
    /\ AfterSlash(<<"", "tiger">>)
    /\ realPath = <<"", "tiger">>
    /\ cacheHit
    /\ Len(item.FullyDecoratedMatchingPaths) >= 1
    /\ DOMAIN gmpdCache = {<<"", "tiger">>}

\* the elements of a sequence
Range(seq) == {seq[i] : i \in 1..Len(seq)}

\* the position of a block in the deduplicated list
PositionOf(block) == CHOOSE i \in 1..Len(Deref(deduped)) : Deref(deduped)[i] = block

\* a partition holds blocks of the deduplicated list in their order
InDedupedOrder(partition) ==
    /\ Range(partition) \subseteq Range(Deref(deduped))
    /\ \A a \in 1..Len(partition) : \A b \in (a + 1)..Len(partition) :
          PositionOf(partition[a]) < PositionOf(partition[b])

\* C27: after deduplication every head block without a title lands in exactly
\* one of the two partitions, the meta partition if its tag is meta and the
\* rest partition otherwise, each partition keeping the blocks' relative
\* order; the reported title is the title of the single title block, or empty
\* when there is none.
C27_Partitions ==
    pc = "sorted"
    => LET meta == Deref(routeData.data).MetaHeadBlocks
           rest == Deref(routeData.data).RestHeadBlocks
           untitled == {b \in Range(Deref(deduped)) : Len(b.Title) = 0}
       IN  /\ Range(meta) = {b \in untitled : b.Tag = sMeta}
           /\ Range(rest) = {b \in untitled : b.Tag # sMeta}
           /\ Len(meta) + Len(rest) = Cardinality(untitled)
           /\ InDedupedOrder(meta) /\ InDedupedOrder(rest)
           /\ Deref(routeData.data).Title =
                 IF TitleIndices(Deref(deduped)) = {} THEN <<>>
                 ELSE Deref(deduped)[Min(TitleIndices(Deref(deduped)))].Title

C27_Witness ==
    /\ pc = "sorted"
    /\ headBlocks = <<otherBlock(<<"l", "i", "n", "k">>, attrsAB),
                      titleBlock(<<"t", "1">>), otherBlock(sMeta, attrsAB)>>
    /\ Deref(routeData.data).Title = <<"t", "1">>
    /\ Deref(routeData.data).MetaHeadBlocks = <<otherBlock(sMeta, attrsAB)>>
    /\ Deref(routeData.data).RestHeadBlocks = <<otherBlock(<<"l", "i", "n", "k">>, attrsAB)>>

\* the outermost error boundary index of a payload is -2, the "no error"
\* sentinel, if and only if no loader and no action returned an error
SentinelIffNoError(payload) ==
    payload.OutermostErrorBoundaryIndex = -2
    <=> (LoaderErrorPositions = {} /\ actionData.err = Nil)

\* C28: in every payload produced, the ActivePathData of getMatchingPathData
\* and the RouteData built from it, the outermost error boundary index is the
\* "no error" sentinel (-2) if and only if neither a loader nor the action
\* returned an error.
C28_SentinelIffNoError ==
    /\ out # Nil => SentinelIffNoError(Deref(out))
    /\ routeData.data # Nil => SentinelIffNoError(Deref(routeData.data))

\* a POST answered with a payload: two loaders and the action ran, none
\* returned an error, and the payload carries the sentinel
C28_Witness ==
    /\ pc = "done" /\ req.method = "POST"
    /\ out # Nil /\ routeData.data # Nil
    /\ Len(loadersData) = 2
    /\ calls.action = <<1>>
    /\ LoaderErrorPositions = {} /\ actionData.err = Nil
    /\ Deref(routeData.data).OutermostErrorBoundaryIndex = -2

\* C29: for every request (any method, any path including the empty path, any
\* combination of loader and action outcomes) GetRouteData completes and
\* returns a payload or a head-callback error; it never aborts abnormally (no
\* out-of-range slice, no nil dereference), in particular when a loader or the
\* action returns an error.
C29_NeverAborts == pc # "panicked"

\* the requests that have got their item
DoneWorkers == {w \in DOMAIN workers : workers[w].pc = "done"}

\* C30: for any number of concurrent requests for the same uncached path,
\* under every interleaving of their cache lookups and inserts, each request
\* obtains the same chain, params and splat segments; duplicate resolutions may
\* occur; afterwards the cache holds at most one entry for that normalized
\* path; an entry is tagged empty exactly when its chain has no entries.
C30_ConcurrentMisses ==
    /\ \A w \in DoneWorkers :
          workers[w].item = resolveItem(Deref(instancePaths), normalizePath(workers[w].path)).item
    /\ \A v \in DoneWorkers : \A w \in DoneWorkers :
          normalizePath(workers[v].path) = normalizePath(workers[w].path)
          => workers[v].item = workers[w].item
    /\ \A w \in DOMAIN workers :
          Cardinality({k \in DOMAIN gmpdCache :
                          normalizePath(k) = normalizePath(workers[w].path)}) <= 1
    /\ \A k \in DOMAIN gmpdCache :
          gmpdCache[k].isSpam <=> gmpdCache[k].value.FullyDecoratedMatchingPaths = <<>>

\* two requests for the same normalized path both missed and both resolved it
C30_Witness ==
    /\ DoneWorkers = DOMAIN workers
    /\ \E v \in DoneWorkers : \E w \in DoneWorkers :
          /\ workers[v].path = <<"", "tiger", "123">>
          /\ workers[w].path = <<"", "tiger", "123", "">>
          /\ ~workers[v].hit /\ ~workers[w].hit
          /\ workers[v].item.FullyDecoratedMatchingPaths # <<>>
    /\ DOMAIN gmpdCache = {<<"", "tiger", "123">>}
    /\ ~gmpdCache[<<"", "tiger", "123">>].isSpam

====
